---- MODULE Spec2Model ----
(***************************************************************************)
(* Model of the arena allocator of native/viewer/arena.c.                  *)
(*                                                                         *)
(* Memory is a sparse map from byte addresses to the 8-byte words the      *)
(* allocator itself reads and writes (block headers, ring links, the       *)
(* defer wrapper header).  Payload bytes of user blocks are not stored.     *)
(* A read or a checked write of an address that holds no such word is a    *)
(* wild access: undefined behaviour.  Undefined behaviour ends the run in  *)
(* a fault state "ub:..." that stands for every outcome the build can      *)
(* produce; no formula below is established from such a state.             *)
(*                                                                         *)
(* size_t is modelled 31 bits wide (the widest TLC can compute with) and   *)
(* wraps around like the 64-bit original.                                  *)
(*                                                                         *)
(* The build is either a debug build (assert() aborts, ndebug = FALSE) or  *)
(* an NDEBUG build (assert() compiles to nothing, ndebug = TRUE).          *)
(***************************************************************************)
EXTENDS Integers, Sequences, FiniteSets, TLC

VARIABLES ar, mem, sys, log, fault, blk, torn, ndebug, regs, rt, kids, wraps, call

vars == <<ar, mem, sys, log, fault, blk, torn, ndebug, regs, rt, kids, wraps, call>>

----------------------------------------------------------------------------
(* Program constants *)

ARENAIMP_MAGIC_FREE == 1701147238

ARENAIMP_MAGIC_ARENA == 1852142177

ARENAIMP_MAGIC_DEFER == 1717921889

arenaimp_size_classes == <<2, 3, 4, 6, 10, 14, 18, 26, 34, 56>>

arenaimp_size_to_class ==
  <<0, 0, 0, 1, 2, 3, 3, 4, 4, 4, 4, 5, 5, 5, 5, 6, 6, 6, 6,
    7, 7, 7, 7, 7, 7, 7, 7, 8, 8, 8, 8, 8, 8, 8, 8, 9, 9, 9,
    9, 9, 9, 9, 9, 9, 9, 9, 9, 9, 9, 9, 9, 9, 9, 9, 9, 9, 9>>

ARENAIMP_SIZECLASS_QUANTIZATION == 8

ARENAIMP_NUM_SIZECLASSES == Len(arenaimp_size_classes)

ARENAIMP_LARGEST_SIZECLASS == 448

ARENAIMP_FIRST_PAGE_SIZE == 512

ARENAIMP_MAX_PAGE_SIZE == 4096

ARENAIMP_INIT_SIZE == 512

\* sizeof(arenaimp_t) on an LP64 target: 11 words, two 24-byte ring
\* sentinels, 10 free-list heads, one bool padded to 8.
SizeofArena == 224

ARENAIMP_EXTRA_SIZE == 512 - SizeofArena

SizeofPtr == 8

SizeofCommonHeader == 8

SizeofSmallHeader == 8

SizeofBigHeader == 24

SizeofDeferHeader == 16

SizeofDeferSlot == 32

\* offsetof(arenaimp_t, big_head) and offsetof(arenaimp_t, big_tail)
OffBigHead == 88

OffBigTail == 112

\* offsets inside arenaimp_big_header
OffPrev == 0

OffNext == 8

OffCap == 16

\* (size_t)-1 at the modelled width
SIZE_MAX == 2147483647

NULL == 0

\* the finalizer arenaimp_defer_free_arena, and an uninitialised slot field
FN_FREE_ARENA == "arenaimp_defer_free_arena"

FN_NULL == "NULL"

FN_UNINIT == "uninit"

----------------------------------------------------------------------------
(* Bounds of the model *)

\* distance between the base addresses of two system allocations
Stride == 8192

\* number of blocks the system allocator hands out in one run
MaxChunks == 5

\* number of arena_ext_defer registrations in one run
MaxRegs == 4

\* number of user allocations in one run
MaxAllocs == 4

\* number of child arenas in one run
MaxKids == 2

\* number of allocations, and of registrations, made on child arenas in one run
MaxTouch == 2

\* number of deferred blocks in one run
MaxWraps == 3

\* number of calls made while the system allocator may give out
MaxCalls == 3

\* number of operations tried on an arena after its teardown
MaxMisuse == 2

----------------------------------------------------------------------------
(* size_t arithmetic *)

AddW(a, b) == IF a > SIZE_MAX - b THEN (a - (SIZE_MAX - b)) - 1 ELSE a + b

SubW(a, b) == IF a >= b THEN a - b ELSE (SIZE_MAX - (b - a)) + 1

\* a * b modulo 2^31, by halving b when the product does not fit
RECURSIVE MulW(_, _)
MulW(a, b) ==
  IF a = 0 \/ b = 0 THEN 0
  ELSE IF a <= SIZE_MAX \div b THEN a * b
  ELSE LET h == MulW(a, b \div 2)
           d == AddW(h, h)
       IN IF b % 2 = 1 THEN AddW(d, a) ELSE d

----------------------------------------------------------------------------
(* The heap as one value; operators map a heap to the heap after the call.  *)
(* ret carries the C return value of the call.  room is the number of       *)
(* malloc calls the system will still satisfy during the call (-1: all of   *)
(* them) and mfail the number of malloc calls that returned NULL.           *)

Heap ==
  [ar |-> ar, mem |-> mem, sys |-> sys, log |-> log, fault |-> fault,
   blk |-> blk, torn |-> torn, ndebug |-> ndebug, ret |-> NULL,
   room |-> -1, mfail |-> 0]

\* the heap when the system allocator gives out after k more blocks
HeapShort(k) == [Heap EXCEPT !.room = k]

Commit(S) ==
  /\ ar' = S.ar
  /\ mem' = S.mem
  /\ sys' = S.sys
  /\ log' = S.log
  /\ fault' = S.fault
  /\ blk' = S.blk
  /\ torn' = S.torn
  /\ ndebug' = S.ndebug

Ok(S) == S.fault = "none"

Fault(S, f) == IF Ok(S) THEN [S EXCEPT !.fault = f, !.ret = NULL] ELSE S

Ret(S, v) == [S EXCEPT !.ret = v]

\* assert(cond): aborts in a debug build, is compiled out under NDEBUG
Chk(S, cond, name) == IF S.ndebug \/ cond THEN S ELSE Fault(S, name)

Valid(S, addr) == addr \in DOMAIN S.mem

\* a write that creates or overwrites the word at addr
Store(S, addr, v) == [S EXCEPT !.mem = (addr :> v) @@ @]

\* remove keys from a function
Drop(f, K) == [x \in (DOMAIN f) \ K |-> f[x]]

InChunk(addr, base) == addr >= base /\ addr < base + Stride

\* the all-zero arenaimp_t left by memset / aalloc_size
ZeroArena ==
  [magic |-> 0, page |-> NULL, pos |-> 0, size |-> 0, parent |-> NULL,
   parent_slot |-> 0, next_size |-> 0, defers |-> NULL, slots |-> <<>>,
   num_defers |-> 0, active_defer_head |-> 0, free_defer_head |-> 0,
   next_free |-> [c \in 0..(ARENAIMP_NUM_SIZECLASSES - 1) |-> NULL],
   allocated |-> FALSE]

\* memset(a, 0, sizeof(arenaimp_t)): the struct fields and the two sentinels
ZeroArenaAt(S, a) ==
  [S EXCEPT !.ar = (a :> ZeroArena) @@ @,
            !.mem = [o \in {a + OffBigHead + OffPrev, a + OffBigHead + OffNext,
                            a + OffBigHead + OffCap, a + OffBigTail + OffPrev,
                            a + OffBigTail + OffNext, a + OffBigTail + OffCap}
                       |-> 0] @@ @]

----------------------------------------------------------------------------
(* The system allocator *)

\* malloc(bytes): the k-th block lives at address k * Stride; NULL when the
\* system has no room left
Malloc(S, bytes) ==
  IF ~Ok(S) THEN S
  ELSE IF S.room = 0 THEN [S EXCEPT !.ret = NULL, !.mfail = @ + 1]
  ELSE [S EXCEPT !.sys = Append(@, [bytes |-> bytes, frees |-> 0, kind |-> "malloc"]),
                 !.ret = (Len(S.sys) + 1) * Stride,
                 !.room = IF @ > 0 THEN @ - 1 ELSE @]

\* free(p): p must be the base of a block malloc returned and not yet freed.
\* The words, arenas and blocks inside the block are gone afterwards.
Free(S, p) ==
  IF ~Ok(S) THEN S
  ELSE LET k == p \div Stride IN
       IF p % Stride # 0 \/ k < 1 \/ k > Len(S.sys) THEN Fault(S, "ub:free_invalid")
       ELSE IF S.sys[k].kind # "malloc" THEN Fault(S, "ub:free_invalid")
       ELSE IF S.sys[k].frees > 0
            THEN Fault([S EXCEPT !.sys[k].frees = @ + 1], "ub:double_free")
       ELSE [S EXCEPT !.sys[k].frees = 1,
                      !.mem = Drop(@, {x \in DOMAIN @ : InChunk(x, p)}),
                      !.ar = Drop(@, {x \in DOMAIN @ : InChunk(x, p)}),
                      !.blk = Drop(@, {x \in DOMAIN @ : InChunk(x, p)})]

----------------------------------------------------------------------------
(* Bookkeeping that is not program state: what each returned pointer was    *)
(* requested for and which path served it.                                  *)

Note(S, ptr, req, path, arena) ==
  [S EXCEPT !.blk = (ptr :> [req |-> req, path |-> path, live |-> TRUE,
                             own |-> "user", arena |-> arena]) @@ @]

Retag(S, ptr, own) ==
  IF ptr \in DOMAIN S.blk THEN [S EXCEPT !.blk[ptr].own = own] ELSE S

Unlive(S, ptr) ==
  IF ptr \in DOMAIN S.blk THEN [S EXCEPT !.blk[ptr].live = FALSE] ELSE S

----------------------------------------------------------------------------
(* Size classes *)

\* the quantization without the rounding up
Quantize_floor(total_small) == total_small \div ARENAIMP_SIZECLASS_QUANTIZATION

Quantize(total_small) ==
  (total_small + ARENAIMP_SIZECLASS_QUANTIZATION - 1) \div ARENAIMP_SIZECLASS_QUANTIZATION

SizeClass(total_small) == arenaimp_size_to_class[Quantize(total_small) + 1]

ChunkSize(sizeclass) ==
  arenaimp_size_classes[sizeclass + 1] * ARENAIMP_SIZECLASS_QUANTIZATION

\* the test of aalloc_uninit_size that selects the small path
AllocIsSmall(total) ==
  AddW(SizeofSmallHeader, total) <= ARENAIMP_LARGEST_SIZECLASS

\* the test of afree that selects the small path
FreeIsSmall(capacity) ==
  capacity <= ARENAIMP_LARGEST_SIZECLASS - SizeofSmallHeader

----------------------------------------------------------------------------
(* afree *)

\* a push that does not chain the block to the blocks already on the list
SmallFreePush_nolink(S, arena, alloc, sizeclass) ==
  [S EXCEPT !.mem[alloc] = NULL,
            !.ar[arena].next_free[sizeclass] = alloc]

\* alloc->freed.next_free = a->next_free[sizeclass];
\* a->next_free[sizeclass] = alloc;
SmallFreePush(S, arena, alloc, sizeclass) ==
  [S EXCEPT !.mem[alloc] = S.ar[arena].next_free[sizeclass],
            !.ar[arena].next_free[sizeclass] = alloc]

\* the small branch of afree
afree_small(S, arena, ptr, capacity) ==
  IF arena \notin DOMAIN S.ar THEN Fault(S, "ub:use_after_free")
  ELSE Unlive(SmallFreePush(S, arena, ptr - SizeofSmallHeader,
                            SizeClass(capacity + SizeofSmallHeader)), ptr)

\* assert(prev->next == alloc && next->prev == alloc), read left to right
afree_links_checked(S, alloc, prev, next) ==
  IF S.ndebug THEN S
  ELSE IF ~Valid(S, prev + OffNext) THEN Fault(S, "ub:wild_read")
  ELSE IF S.mem[prev + OffNext] # alloc THEN Fault(S, "abort:afree_links")
  ELSE IF ~Valid(S, next + OffPrev) THEN Fault(S, "ub:wild_read")
  ELSE Chk(S, S.mem[next + OffPrev] = alloc, "abort:afree_links")

\* prev->next = next; next->prev = prev;
afree_unlink(S1, ptr, prev, next) ==
  IF ~Ok(S1) THEN S1
  ELSE IF ~Valid(S1, prev + OffNext) \/ ~Valid(S1, next + OffPrev)
       THEN Fault(S1, "ub:wild_write")
  ELSE Unlive([S1 EXCEPT !.mem[prev + OffNext] = next,
                         !.mem[next + OffPrev] = prev], ptr)

\* the big branch of afree
afree_big(S, ptr, alloc) ==
  IF ~Valid(S, alloc + OffPrev) \/ ~Valid(S, alloc + OffNext)
  THEN Fault(S, "ub:wild_read")
  ELSE afree_unlink(afree_links_checked(S, alloc, S.mem[alloc + OffPrev],
                                        S.mem[alloc + OffNext]),
                    ptr, S.mem[alloc + OffPrev], S.mem[alloc + OffNext])

afree(S, arena, ptr) ==
  IF ~Ok(S) THEN S
  ELSE IF ptr = NULL THEN S
  ELSE IF arena = NULL THEN Free(S, ptr - SizeofCommonHeader)
  ELSE IF ~Valid(S, ptr - SizeofCommonHeader) THEN Fault(S, "ub:wild_read")
  ELSE IF FreeIsSmall(S.mem[ptr - SizeofCommonHeader])
       THEN afree_small(S, arena, ptr, S.mem[ptr - SizeofCommonHeader])
  ELSE afree_big(S, ptr, ptr - SizeofBigHeader)

\* aalloc_capacity_bytes: the word before ptr, read as a common header
aalloc_capacity_bytes(S, ptr) ==
  IF ~Ok(S) THEN S
  ELSE IF ptr = NULL THEN Ret(S, 0)
  ELSE IF ~Valid(S, ptr - SizeofCommonHeader) THEN Fault(S, "ub:wild_read")
  ELSE Ret(S, S.mem[ptr - SizeofCommonHeader])

----------------------------------------------------------------------------
(* aalloc_uninit_size *)

\* arena == NULL: a plain malloc with a common header
aalloc_unmanaged(M, total) ==
  IF ~Ok(M) \/ M.ret = NULL THEN M
  ELSE Ret(Store(M, M.ret, total), M.ret + SizeofCommonHeader)

\* pop the head of the free list and rewrite its capacity
aalloc_reuse(S, arena, sizeclass, next, total) ==
  IF ~Valid(S, next) THEN Fault(S, "ub:wild_read")
  ELSE Ret(Note([S EXCEPT !.ar[arena].next_free[sizeclass] = S.mem[next],
                          !.mem[next] = total],
                next + SizeofSmallHeader, total, "reuse", arena),
           next + SizeofSmallHeader)

\* carve chunk bytes at the cursor of the current page
aalloc_bump(S, arena, alloc, pos, chunk, total) ==
  Ret(Note(Store([S EXCEPT !.ar[arena].pos = pos + chunk], alloc, total),
           alloc + SizeofSmallHeader, total, "bump", arena),
      alloc + SizeofSmallHeader)

\* the cursor a grown page starts with once the request is served from it
GrownPagePos(total_small, chunk) == total_small

\* if (page_size - total_small > a->size - a->pos) { a->page = ...; }
aalloc_switch_page(S, arena, new_page, total_small, page_size, chunk) ==
  IF page_size - total_small > SubW(S.ar[arena].size, S.ar[arena].pos)
  THEN [S EXCEPT !.ar[arena].page = new_page,
                 !.ar[arena].pos = GrownPagePos(total_small, chunk),
                 !.ar[arena].size = page_size]
  ELSE S

\* the request is served from the start of the page R.ret
aalloc_grown(R, arena, total, total_small, page_size, chunk) ==
  IF ~Ok(R) \/ R.ret = NULL THEN Ret(R, NULL)
  ELSE Ret(Note(aalloc_switch_page(Store(Retag(R, R.ret, "page"), R.ret, total),
                                   arena, R.ret, total_small, page_size, chunk),
                R.ret + SizeofSmallHeader, total, "page", arena),
           R.ret + SizeofSmallHeader)

\* the doubling without the cap
NextPageSize_nocap(next_size) == next_size * 2

NextPageSize(next_size) ==
  IF next_size * 2 > ARENAIMP_MAX_PAGE_SIZE
  THEN ARENAIMP_MAX_PAGE_SIZE ELSE next_size * 2

PageSize(next_size, total_small) ==
  IF next_size < total_small THEN total_small ELSE next_size

\* link a malloc'ed big block behind big_head
aalloc_big_link(M1, arena, alloc, head, total) ==
  IF ~Ok(M1) \/ alloc = NULL THEN Ret(M1, NULL)
  ELSE IF ~Valid(M1, head + OffNext) THEN Fault(M1, "ub:wild_read")
  ELSE IF ~Valid(M1, M1.mem[head + OffNext] + OffPrev) THEN Fault(M1, "ub:wild_write")
  ELSE Ret(Note([M1 EXCEPT !.mem = (alloc + OffPrev :> head)
                                   @@ (alloc + OffNext :> M1.mem[head + OffNext])
                                   @@ (alloc + OffCap :> total)
                                   @@ (M1.mem[head + OffNext] + OffPrev :> alloc)
                                   @@ (head + OffNext :> alloc)
                                   @@ @],
                alloc + SizeofBigHeader, total, "big", arena),
           alloc + SizeofBigHeader)

aalloc_big(M, arena, total) ==
  aalloc_big_link(Chk(M, M.ret # NULL, "abort:big_alloc"), arena, M.ret,
                  arena + OffBigHead, total)

RECURSIVE aalloc_uninit_size(_, _, _, _)
RECURSIVE aalloc_small(_, _, _, _, _)
RECURSIVE aalloc_grow(_, _, _, _, _, _)

\* next_size doubled and capped, then a page of page_size bytes
aalloc_grow(S1, arena, total, total_small, next_size, chunk) ==
  aalloc_grown(aalloc_uninit_size(Chk(S1, PageSize(next_size, total_small)
                                            > ARENAIMP_LARGEST_SIZECLASS,
                                      "abort:page_size"),
                                  arena, 1, PageSize(next_size, total_small)),
               arena, total, total_small, PageSize(next_size, total_small), chunk)

\* the small branch: free list, then current page, then a new page
aalloc_small(S, arena, total, total_small, sizeclass) ==
  IF S.ar[arena].next_free[sizeclass] # NULL
  THEN aalloc_reuse(S, arena, sizeclass, S.ar[arena].next_free[sizeclass], total)
  ELSE IF SubW(S.ar[arena].size, S.ar[arena].pos) >= ChunkSize(sizeclass)
  THEN aalloc_bump(S, arena, S.ar[arena].page + S.ar[arena].pos, S.ar[arena].pos,
                   ChunkSize(sizeclass), total)
  ELSE aalloc_grow([S EXCEPT !.ar[arena].next_size = NextPageSize(@)],
                   arena, total, total_small,
                   NextPageSize(S.ar[arena].next_size), ChunkSize(sizeclass))

aalloc_in_arena(S0, arena, total, total_small) ==
  IF ~Ok(S0) THEN S0
  ELSE IF total_small <= ARENAIMP_LARGEST_SIZECLASS
  THEN aalloc_small(S0, arena, total, total_small, SizeClass(total_small))
  ELSE aalloc_big(Malloc(S0, AddW(SizeofBigHeader, total)), arena, total)

aalloc_uninit_size(S, arena, size, count) ==
  IF ~Ok(S) THEN S
  ELSE IF arena = NULL
  THEN aalloc_unmanaged(Malloc(S, AddW(SizeofCommonHeader, MulW(size, count))),
                        MulW(size, count))
  ELSE IF arena \notin DOMAIN S.ar THEN Fault(S, "ub:use_after_free")
  ELSE aalloc_in_arena(Chk(S, S.ar[arena].magic = ARENAIMP_MAGIC_ARENA,
                           "abort:aalloc_magic"),
                       arena, MulW(size, count),
                       AddW(SizeofSmallHeader, MulW(size, count)))

\* memset(ptr, 0, size * count) on whatever came back
aalloc_memset(R) ==
  IF ~Ok(R) THEN R
  ELSE IF R.ret = NULL THEN Fault(R, "ub:null_write")
  ELSE R

aalloc_size(S, arena, size, count) ==
  aalloc_memset(aalloc_uninit_size(S, arena, size, count))

\* arenaimp_copy(ptr, data, size * count): memcpy or memset through ptr
aalloc_copied(R) ==
  IF ~Ok(R) THEN R
  ELSE IF R.ret = NULL THEN Fault(R, "ub:null_write")
  ELSE R

aalloc_copy_size(S, arena, size, count) ==
  aalloc_copied(aalloc_uninit_size(S, arena, size, count))

----------------------------------------------------------------------------
(* arealloc_size.  memcpy moves the old block's capacity bytes: the words   *)
(* that were written there (the defer slots are held in the arena record).  *)

\* the words of [src, src + n) that have been written
Written(S, src, n) == {w \in DOMAIN S.mem : w >= src /\ w < src + n}

\* memcpy(dst, src, n): a word of dst has the value of its source word, and
\* no value where the source was never written; overlapping ranges are
\* undefined
memcpy(S, dst, src, n) ==
  IF ~Ok(S) THEN S
  ELSE IF n > 0 /\ dst < src + n /\ src < dst + n THEN Fault(S, "ub:memcpy_overlap")
  ELSE [S EXCEPT !.mem =
          [a \in ((DOMAIN S.mem) \ Written(S, dst, n))
                   \cup {dst + (w - src) : w \in Written(S, src, n)} |->
             IF a >= dst /\ a < dst + n THEN S.mem[src + (a - dst)] ELSE S.mem[a]]]

\* memcpy(new_ptr, ptr, capacity); afree(arena, ptr); return new_ptr;
arealloc_move(R, arena, ptr, capacity) ==
  IF ~Ok(R) \/ R.ret = NULL THEN Ret(R, NULL)
  ELSE Ret(afree(memcpy(R, R.ret, ptr, capacity), arena, ptr), R.ret)

\* new_cap without the doubling
NewCap_exact(capacity, total) == total

NewCap(capacity, total) ==
  IF total >= MulW(capacity, 2) THEN total ELSE MulW(capacity, 2)

arealloc_grow(S, arena, ptr, capacity, total) ==
  IF total <= capacity THEN Ret(S, ptr)
  ELSE arealloc_move(aalloc_uninit_size(S, arena, 1, NewCap(capacity, total)),
                     arena, ptr, capacity)

arealloc_size(S, arena, size, count, ptr) ==
  IF ~Ok(S) THEN S
  ELSE IF ptr = NULL
  THEN IF count = 0 THEN Ret(S, NULL) ELSE aalloc_uninit_size(S, arena, size, count)
  ELSE IF ~Valid(S, ptr - SizeofCommonHeader) THEN Fault(S, "ub:wild_read")
  ELSE arealloc_grow(S, arena, ptr, S.mem[ptr - SizeofCommonHeader], MulW(size, count))

----------------------------------------------------------------------------
(* The deferred-cleanup registry.  a->defers[i] is slots[i + 1].            *)

\* assert(a); assert(a->magic == ARENAIMP_MAGIC_ARENA);
ArenaEnter(S, arena, name) ==
  IF ~Ok(S) THEN S
  ELSE IF arena = NULL
       THEN Fault(S, IF S.ndebug THEN "ub:null_deref" ELSE name)
  ELSE IF arena \notin DOMAIN S.ar THEN Fault(S, "ub:use_after_free")
  ELSE Chk(S, S.ar[arena].magic = ARENAIMP_MAGIC_ARENA, name)

InTable(S, arena, slot) == slot >= 0 /\ slot < Len(S.ar[arena].slots)

UninitSlot == [fn |-> FN_UNINIT, user |-> NULL, prev |-> 0, next |-> 0]

\* a registration that forgets the rest of the active list
DeferSlotInit_drop(fn, data, head) ==
  [fn |-> fn, user |-> data, next |-> SIZE_MAX, prev |-> SIZE_MAX]

\* ds->fn = fn; ds->user = data; ds->next = head; ds->prev = SIZE_MAX;
DeferSlotInit(fn, data, head) ==
  [fn |-> fn, user |-> data, next |-> head, prev |-> SIZE_MAX]

\* a cancellation that forgets the rest of the free list
CancelledSlot_drop(free_head) ==
  [fn |-> FN_NULL, user |-> NULL, next |-> SIZE_MAX, prev |-> SIZE_MAX]

\* ds->fn = NULL; ds->user = NULL; ds->next = a->free_defer_head;
\* ds->prev = SIZE_MAX;
CancelledSlot(free_head) ==
  [fn |-> FN_NULL, user |-> NULL, next |-> free_head, prev |-> SIZE_MAX]

\* if (head != SIZE_MAX) a->defers[head].prev = slot;
\* a->active_defer_head = slot; return slot;
defer_set_head(S1, arena, slot, head) ==
  IF head = SIZE_MAX
  THEN Ret([S1 EXCEPT !.ar[arena].active_defer_head = slot], slot)
  ELSE IF ~InTable(S1, arena, head) THEN Fault(S1, "ub:slot_out_of_range")
  ELSE Ret([S1 EXCEPT !.ar[arena].slots[head + 1].prev = slot,
                      !.ar[arena].active_defer_head = slot], slot)

\* fill the slot and splice it in front of the active list
defer_link(G, arena, slot, fn, data) ==
  defer_set_head([G EXCEPT !.ar[arena].slots[slot + 1] =
                             DeferSlotInit(fn, data, G.ar[arena].active_defer_head)],
                 arena, slot, G.ar[arena].active_defer_head)

\* the slot table after arealloc: a->defers = defers; slot = a->num_defers++;
defer_grown(R, arena, fn, data) ==
  IF ~Ok(R) THEN R
  ELSE IF R.ret = NULL THEN Ret(R, SIZE_MAX)
  ELSE defer_link([Retag(R, R.ret, "table")
                     EXCEPT !.ar[arena].defers = R.ret,
                            !.ar[arena].slots = Append(@, UninitSlot),
                            !.ar[arena].num_defers = @ + 1],
                  arena, R.ar[arena].num_defers, fn, data)

\* take a slot from the free list, or grow the table by one
defer_take(S0, arena, fn, data) ==
  IF ~Ok(S0) THEN S0
  ELSE IF S0.ar[arena].free_defer_head # SIZE_MAX
  THEN IF ~InTable(S0, arena, S0.ar[arena].free_defer_head)
       THEN Fault(S0, "ub:slot_out_of_range")
       ELSE defer_link([S0 EXCEPT !.ar[arena].free_defer_head =
                                    S0.ar[arena].slots[@ + 1].next],
                       arena, S0.ar[arena].free_defer_head, fn, data)
  ELSE defer_grown(arealloc_size(S0, arena, SizeofDeferSlot,
                                 S0.ar[arena].num_defers + 1, S0.ar[arena].defers),
                   arena, fn, data)

arena_ext_defer(S, arena, fn, data) ==
  defer_take(Chk(ArenaEnter(S, arena, "abort:ext_defer_magic"),
                 fn # FN_NULL, "abort:ext_defer_fn"),
             arena, fn, data)

\* arena_ext_redefer without the store of the user data
arena_ext_redefer_fn_only(S, arena, slot, fn, data) ==
  IF ~Ok(ArenaEnter(S, arena, "abort:ext_redefer_magic"))
  THEN ArenaEnter(S, arena, "abort:ext_redefer_magic")
  ELSE IF ~InTable(S, arena, slot) THEN Fault(S, "ub:slot_out_of_range")
  ELSE [S EXCEPT !.ar[arena].slots[slot + 1].fn = fn]

arena_ext_redefer(S, arena, slot, fn, data) ==
  IF ~Ok(ArenaEnter(S, arena, "abort:ext_redefer_magic"))
  THEN ArenaEnter(S, arena, "abort:ext_redefer_magic")
  ELSE IF ~InTable(S, arena, slot) THEN Fault(S, "ub:slot_out_of_range")
  ELSE [S EXCEPT !.ar[arena].slots[slot + 1].fn = fn,
                 !.ar[arena].slots[slot + 1].user = data]

RECURSIVE arena_free(_, _)
RECURSIVE RunFn(_, _, _, _)
RECURSIVE arena_ext_cancel(_, _, _, _)
RECURSIVE Walk(_, _, _, _)
RECURSIVE Sweep(_, _, _, _)

\* a call through a finalizer pointer: ds->fn(ds->user)
RunFn(S, fn, user, by) ==
  IF ~Ok(S) THEN S
  ELSE IF fn = FN_FREE_ARENA THEN arena_free(S, user)
  ELSE IF fn \in {FN_NULL, FN_UNINIT} THEN Fault(S, "ub:bad_call")
  ELSE [S EXCEPT !.log = Append(@, [fn |-> fn, user |-> user, by |-> by])]

\* ds->... = ...; a->free_defer_head = slot;
cancel_to_free_list(S3, arena, slot) ==
  IF ~Ok(S3) THEN S3
  ELSE [S3 EXCEPT !.ar[arena].slots[slot + 1] =
                    CancelledSlot(S3.ar[arena].free_defer_head),
                  !.ar[arena].free_defer_head = slot]

\* if (ds->next != SIZE_MAX) a->defers[ds->next].prev = ds->prev;
\* ds is read again after the write through ds->prev
cancel_patch_next(S2, arena, slot) ==
  IF ~Ok(S2) THEN S2
  ELSE IF S2.ar[arena].slots[slot + 1].next = SIZE_MAX THEN S2
  ELSE IF ~InTable(S2, arena, S2.ar[arena].slots[slot + 1].next)
       THEN Fault(S2, "ub:slot_out_of_range")
  ELSE [S2 EXCEPT !.ar[arena].slots[S2.ar[arena].slots[slot + 1].next + 1].prev =
                    S2.ar[arena].slots[slot + 1].prev]

\* if (ds->prev != SIZE_MAX) a->defers[ds->prev].next = ds->next;
\* else a->active_defer_head = ds->next;
cancel_patch_prev(S1, arena, ds) ==
  IF ds.prev = SIZE_MAX THEN [S1 EXCEPT !.ar[arena].active_defer_head = ds.next]
  ELSE IF ~InTable(S1, arena, ds.prev) THEN Fault(S1, "ub:slot_out_of_range")
  ELSE [S1 EXCEPT !.ar[arena].slots[ds.prev + 1].next = ds.next]

\* unlink the slot as it is after the finalizer (if any) has run
cancel_unlink(S1, arena, slot) ==
  IF ~Ok(S1) THEN S1
  ELSE IF arena \notin DOMAIN S1.ar THEN Fault(S1, "ub:use_after_free")
  ELSE cancel_to_free_list(
         cancel_patch_next(cancel_patch_prev(S1, arena, S1.ar[arena].slots[slot + 1]),
                           arena, slot),
         arena, slot)

cancel_run(S0, arena, slot, run_defer) ==
  IF ~Ok(S0) THEN S0
  ELSE IF ~InTable(S0, arena, slot) THEN Fault(S0, "ub:slot_out_of_range")
  ELSE cancel_unlink(IF run_defer
                     THEN RunFn(S0, S0.ar[arena].slots[slot + 1].fn,
                                S0.ar[arena].slots[slot + 1].user, "cancel")
                     ELSE S0,
                     arena, slot)

arena_ext_cancel(S, arena, slot, run_defer) ==
  cancel_run(ArenaEnter(S, arena, "abort:ext_cancel_magic"), arena, slot, run_defer)

----------------------------------------------------------------------------
(* arena_free *)

\* slot = defers[slot].next, read after the finalizer has returned
walk_next(R, arena, slot, fuel) ==
  IF ~Ok(R) THEN R
  ELSE IF arena \notin DOMAIN R.ar THEN Fault(R, "ub:use_after_free")
  ELSE Walk(R, arena, R.ar[arena].slots[slot + 1].next, fuel - 1)

\* while (slot != SIZE_MAX) { defers[slot].fn(defers[slot].user);
\*                            slot = defers[slot].next; }
Walk(S, arena, slot, fuel) ==
  IF ~Ok(S) THEN S
  ELSE IF slot = SIZE_MAX THEN S
  ELSE IF fuel = 0 THEN Fault(S, "hang:defer_walk")
  ELSE IF arena \notin DOMAIN S.ar THEN Fault(S, "ub:use_after_free")
  ELSE IF ~InTable(S, arena, slot) THEN Fault(S, "ub:slot_out_of_range")
  ELSE walk_next(RunFn(S, S.ar[arena].slots[slot + 1].fn,
                       S.ar[arena].slots[slot + 1].user, "teardown"),
                 arena, slot, fuel)

\* while (alloc != last) { next = alloc->next; free(alloc); alloc = next; }
Sweep(S, alloc, last, fuel) ==
  IF ~Ok(S) THEN S
  ELSE IF alloc = last THEN S
  ELSE IF fuel = 0 THEN Fault(S, "hang:big_sweep")
  ELSE IF ~Valid(S, alloc + OffNext) THEN Fault(S, "ub:wild_read")
  ELSE Sweep(Free(S, alloc), S.mem[alloc + OffNext], last, fuel - 1)

\* the release without the test of a->allocated
free_backing_always(B, arena) ==
  IF ~Ok(B) THEN B
  ELSE IF arena \notin DOMAIN B.ar THEN Fault(B, "ub:use_after_free")
  ELSE IF B.ar[arena].parent # NULL
  THEN afree(arena_ext_cancel(B, B.ar[arena].parent, B.ar[arena].parent_slot, FALSE),
             B.ar[arena].parent, arena)
  ELSE Free(B, arena)

\* if (a->allocated) { if (a->parent) { cancel; afree } else free(a); }
free_backing(B, arena) ==
  IF ~Ok(B) THEN B
  ELSE IF arena \notin DOMAIN B.ar THEN Fault(B, "ub:use_after_free")
  ELSE IF ~B.ar[arena].allocated THEN B
  ELSE IF B.ar[arena].parent # NULL
  THEN afree(arena_ext_cancel(B, B.ar[arena].parent, B.ar[arena].parent_slot, FALSE),
             B.ar[arena].parent, arena)
  ELSE Free(B, arena)

\* the big-object sweep, then the arena's own memory
free_bigs(W, arena) ==
  IF ~Ok(W) THEN W
  ELSE IF arena \notin DOMAIN W.ar \/ ~Valid(W, arena + OffBigHead + OffNext)
  THEN Fault(W, "ub:use_after_free")
  ELSE free_backing(Sweep(W, W.mem[arena + OffBigHead + OffNext],
                          arena + OffBigTail, Len(W.sys) + 1),
                    arena)

\* a->magic = ARENAIMP_MAGIC_FREE, then the walk over the active list
free_walk(S0, arena) ==
  IF ~Ok(S0) THEN S0
  ELSE free_bigs(Walk([S0 EXCEPT !.ar[arena].magic = ARENAIMP_MAGIC_FREE,
                                 !.torn = (arena :> (IF arena \in DOMAIN @
                                                     THEN @[arena] + 1 ELSE 1)) @@ @],
                      arena, S0.ar[arena].active_defer_head,
                      S0.ar[arena].num_defers + 1),
                 arena)

arena_free(S, arena) ==
  IF ~Ok(S) THEN S
  ELSE IF arena = NULL THEN S
  ELSE IF arena \notin DOMAIN S.ar THEN Fault(S, "ub:use_after_free")
  ELSE free_walk(Chk(S, S.ar[arena].magic = ARENAIMP_MAGIC_ARENA,
                     "abort:arena_free_magic"),
                 arena)

----------------------------------------------------------------------------
(* Creation *)

arenaimp_init(S, a) ==
  IF ~Ok(S) THEN S
  ELSE [S EXCEPT !.ar[a].magic = ARENAIMP_MAGIC_ARENA,
                 !.ar[a].active_defer_head = SIZE_MAX,
                 !.ar[a].free_defer_head = SIZE_MAX,
                 !.ar[a].next_size = ARENAIMP_FIRST_PAGE_SIZE \div 2,
                 !.ar[a].page = a,
                 !.ar[a].pos = SizeofArena,
                 !.ar[a].size = ARENAIMP_INIT_SIZE,
                 !.mem = (a + OffBigHead + OffNext :> a + OffBigTail)
                         @@ (a + OffBigTail + OffNext :> a + OffBigHead)
                         @@ @]

\* a->allocated = true; arenaimp_init(a); return a;
create_finish(A, a) ==
  IF ~Ok(A) THEN A
  ELSE Ret(arenaimp_init([A EXCEPT !.ar[a].allocated = TRUE], a), a)

\* a->parent_slot = arena_ext_defer(...); if it failed, afree(parent, a)
create_registered(D, parent, a) ==
  IF ~Ok(D) THEN D
  ELSE IF D.ret = SIZE_MAX
  THEN Ret(afree([D EXCEPT !.ar[a].parent_slot = SIZE_MAX], parent, a), NULL)
  ELSE create_finish([D EXCEPT !.ar[a].parent_slot = D.ret], a)

\* the child lives in a zeroed block of the parent
create_child(R, parent) ==
  IF ~Ok(R) \/ R.ret = NULL THEN Ret(R, NULL)
  ELSE create_registered(
         arena_ext_defer([ZeroArenaAt(Retag(R, R.ret, "arena"), R.ret)
                            EXCEPT !.ar[R.ret].parent = parent],
                         parent, FN_FREE_ARENA, R.ret),
         parent, R.ret)

\* a = malloc(sizeof(a) + ARENAIMP_EXTRA_SIZE); memset(a, 0, sizeof(arenaimp_t));
create_root(M) ==
  IF ~Ok(M) \/ M.ret = NULL THEN Ret(M, NULL)
  ELSE create_finish(ZeroArenaAt(M, M.ret), M.ret)

arena_create(S, parent) ==
  IF ~Ok(S) THEN S
  ELSE IF parent # NULL
  THEN create_child(aalloc_size(S, parent, SizeofArena + ARENAIMP_EXTRA_SIZE, 1), parent)
  ELSE create_root(Malloc(S, SizeofPtr + ARENAIMP_EXTRA_SIZE))

\* a->allocated = false; arenaimp_init(a); return true;
init_finish(A, arena) ==
  IF ~Ok(A) THEN A
  ELSE Ret(arenaimp_init([A EXCEPT !.ar[arena].allocated = FALSE], arena), 1)

init_registered(D, parent, arena) ==
  IF ~Ok(D) THEN D
  ELSE IF D.ret = SIZE_MAX
  THEN Ret(afree([D EXCEPT !.ar[arena].parent_slot = SIZE_MAX], parent, arena), 0)
  ELSE init_finish([D EXCEPT !.ar[arena].parent_slot = D.ret], arena)

\* arena_init on caller storage at address arena; ret is 1 for true, 0 for false
arena_init(S, arena, parent) ==
  IF ~Ok(S) THEN S
  ELSE IF parent # NULL
  THEN init_registered(
         arena_ext_defer([ZeroArenaAt(S, arena) EXCEPT !.ar[arena].parent = parent],
                         parent, FN_FREE_ARENA, arena),
         parent, arena)
  ELSE init_finish(ZeroArenaAt(S, arena), arena)

----------------------------------------------------------------------------
(* The deferred allocation wrapper *)

\* dh->magic = ARENAIMP_MAGIC_DEFER; dh->slot = slot; return copy;
defer_size_done(D, arena, dh) ==
  IF ~Ok(D) THEN D
  ELSE IF D.ret = SIZE_MAX THEN Ret(afree(D, arena, dh), NULL)
  ELSE Ret(Store(Store(D, dh, ARENAIMP_MAGIC_DEFER), dh + 8, D.ret),
           dh + SizeofDeferHeader)

\* assert(dh); if (!dh) return NULL; then register the cleanup on copy
defer_size_register(R1, arena, fn, dh) ==
  IF ~Ok(R1) \/ dh = NULL THEN Ret(R1, NULL)
  ELSE defer_size_done(arena_ext_defer(Retag(R1, dh, "wrapper"), arena, fn,
                                       dh + SizeofDeferHeader),
                       arena, dh)

defer_size_alloc(R, arena, fn) ==
  defer_size_register(Chk(R, R.ret # NULL, "abort:defer_size_alloc"), arena, fn, R.ret)

arena_defer_size(S, arena, fn, size) ==
  IF ~Ok(ArenaEnter(S, arena, "abort:defer_size_magic"))
  THEN ArenaEnter(S, arena, "abort:defer_size_magic")
  ELSE defer_size_alloc(aalloc_uninit_size(S, arena, AddW(SizeofDeferHeader, size), 1),
                        arena, fn)

\* dh->slot = SIZE_MAX; dh->magic = ARENAIMP_MAGIC_FREE;
cancel_retain_mark(C, dh) ==
  IF ~Ok(C) THEN C
  ELSE Store(Store(C, dh + 8, SIZE_MAX), dh, ARENAIMP_MAGIC_FREE)

cancel_retain_slot(S0, arena, dh, run_defer) ==
  IF ~Ok(S0) THEN S0
  ELSE IF ~Valid(S0, dh + 8) THEN Fault(S0, "ub:wild_read")
  ELSE cancel_retain_mark(arena_ext_cancel(S0, arena, S0.mem[dh + 8], run_defer), dh)

\* assert(dh->magic == ARENAIMP_MAGIC_DEFER)
cancel_retain_checked(S, dh) ==
  IF S.ndebug THEN S
  ELSE IF ~Valid(S, dh) THEN Fault(S, "ub:wild_read")
  ELSE Chk(S, S.mem[dh] = ARENAIMP_MAGIC_DEFER, "abort:cancel_magic")

arena_cancel_retain(S, arena, ptr, run_defer) ==
  IF ~Ok(S) THEN S
  ELSE IF ptr = NULL THEN S
  ELSE cancel_retain_slot(cancel_retain_checked(S, ptr - SizeofDeferHeader),
                          arena, ptr - SizeofDeferHeader, run_defer)

arena_cancel(S, arena, ptr, run_defer) ==
  IF ~Ok(S) THEN S
  ELSE IF ptr = NULL THEN S
  ELSE afree(arena_cancel_retain(S, arena, ptr, run_defer), arena,
             ptr - SizeofDeferHeader)

----------------------------------------------------------------------------
(* Initial state: a standalone arena made by arena_create(NULL), in either  *)
(* build.                                                                   *)

Root == Stride

EmptyHeap(nd) ==
  [ar |-> <<>>, mem |-> <<>>, sys |-> <<>>, log |-> <<>>, fault |-> "none",
   blk |-> <<>>, torn |-> <<>>, ndebug |-> nd, ret |-> NULL, room |-> -1, mfail |-> 0]

\* the caller's view of its latest call made with the system allocator
\* short of room: which operation, what it returned, how many malloc calls
\* failed inside it
NoCall == [n |-> 0, op |-> "none", ret |-> NULL, mfail |-> 0, arg |-> 0, cap |-> -1]

InitWith(S, c) ==
    /\ ar = S.ar
    /\ mem = S.mem
    /\ sys = S.sys
    /\ log = S.log
    /\ fault = S.fault
    /\ blk = S.blk
    /\ torn = S.torn
    /\ ndebug = S.ndebug
    /\ regs = [live |-> <<>>, n |-> 0]
    /\ rt = [n |-> 0, given |-> <<>>, reused |-> 0,
             last |-> [expect |-> NULL, got |-> NULL, size |-> 0, paging |-> <<>>]]
    /\ kids = <<>>
    /\ wraps = <<>>
    /\ call = c

InitFrom(S) == InitWith(S, NoCall)

Init == \E nd \in BOOLEAN : InitFrom(arena_create(EmptyHeap(nd), NULL))

Active(a) == a \in DOMAIN ar /\ ar[a].magic = ARENAIMP_MAGIC_ARENA

\* finalizers a caller registers: the i-th registration of a run passes the
\* i-th of these (the allocator never looks inside a finalizer)
FnNames == <<"A", "B", "C", "D", "E", "F", "G", "H">>

FnOf(i) == IF i <= Len(FnNames) THEN FnNames[i] ELSE "Z"

----------------------------------------------------------------------------
(* Caller actions on the registry.  regs is the caller's own record of the  *)
(* registrations it holds: the slot index each call returned, in order.     *)

\* the caller notes the slot index it was given
ExtDeferDone(S, a) ==
  /\ Commit(S)
  /\ regs' = IF Ok(S) /\ S.ret # SIZE_MAX
             THEN [live |-> Append(regs.live,
                                   [fn |-> FnOf(regs.n + 1), user |-> regs.n + 1,
                                    slot |-> S.ret, arena |-> a]),
                   n |-> regs.n + 1]
             ELSE [regs EXCEPT !.n = @ + 1]

ExtDefer(a) ==
  /\ fault = "none"
  /\ Active(a)
  /\ regs.n < MaxRegs
  /\ Len(sys) < MaxChunks
  /\ ExtDeferDone(arena_ext_defer(Heap, a, FnOf(regs.n + 1), regs.n + 1), a)
  /\ UNCHANGED <<rt, kids, wraps, call>>

RemoveAt(q, i) == SubSeq(q, 1, i - 1) \o SubSeq(q, i + 1, Len(q))

ExtCancel(i, run_defer) ==
  /\ fault = "none"
  /\ i \in 1..Len(regs.live)
  /\ Active(regs.live[i].arena)
  /\ Commit(arena_ext_cancel(Heap, regs.live[i].arena, regs.live[i].slot, run_defer))
  /\ regs' = [regs EXCEPT !.live = RemoveAt(@, i)]
  /\ UNCHANGED <<rt, kids, wraps, call>>

ArenaFree(a) ==
  /\ fault = "none"
  /\ Active(a)
  /\ Commit(arena_free(Heap, a))
  /\ UNCHANGED <<regs, rt, kids, wraps, call>>

NextDefer ==
  \/ ExtDefer(Root)
  \/ \E i \in 1..MaxRegs, r \in BOOLEAN : ExtCancel(i, r)
  \/ ArenaFree(Root)

SpecDefer == Init /\ [][NextDefer]_vars

----------------------------------------------------------------------------
(* Helpers for the properties *)

Reverse(q) == [i \in 1..Len(q) |-> q[Len(q) + 1 - i]]

\* finalizer calls made by teardown walks, in call order
TeardownCalls ==
  LET q == SelectSeq(log, LAMBDA e : e.by = "teardown")
  IN [i \in 1..Len(q) |-> <<q[i].fn, q[i].user>>]

\* the registrations the caller still holds, in registration order
HeldRegs == [i \in 1..Len(regs.live) |-> <<regs.live[i].fn, regs.live[i].user>>]

\* the slot indices reached from start by following next, or <<-1>> when
\* the chain leaves the table or does not end within fuel steps
RECURSIVE Chain(_, _, _)
Chain(slots, start, fuel) ==
  IF start = SIZE_MAX THEN <<>>
  ELSE IF fuel = 0 \/ start < 0 \/ start >= Len(slots) THEN <<-1>>
  ELSE LET rest == Chain(slots, slots[start + 1].next, fuel - 1)
       IN IF rest = <<-1>> THEN rest ELSE <<start>> \o rest

SeqRange(q) == {q[i] : i \in 1..Len(q)}

NoDup(q) == Cardinality(SeqRange(q)) = Len(q)

----------------------------------------------------------------------------
(* C1: on one arena without child arenas, arena_free calls the finalizer    *)
(* of every registration still active at teardown exactly once, last        *)
(* registered first, and calls no finalizer of a cancelled registration.    *)

C1_TeardownOrder ==
  Root \in DOMAIN torn => /\ fault = "none"
                          /\ TeardownCalls = Reverse(HeldRegs)

\* A, B, C were registered in that order, one more registration was
\* cancelled, and teardown ran C, B, A
C1_Witness ==
  /\ Root \in DOMAIN torn
  /\ regs.n > Len(regs.live)
  /\ [i \in 1..Len(TeardownCalls) |-> TeardownCalls[i][1]] = <<"C", "B", "A">>

----------------------------------------------------------------------------
(* Definitions for C7 *)

ActiveChain(a) == Chain(ar[a].slots, ar[a].active_defer_head, ar[a].num_defers)

FreeChain(a) == Chain(ar[a].slots, ar[a].free_defer_head, ar[a].num_defers)

SlotListsOk(a) ==
  LET act == ActiveChain(a)
      fre == FreeChain(a)
  IN /\ act # <<-1>>
     /\ fre # <<-1>>
     /\ NoDup(act)
     /\ NoDup(fre)
     /\ SeqRange(act) \cap SeqRange(fre) = {}
     /\ SeqRange(act) \cup SeqRange(fre) = 0..(ar[a].num_defers - 1)
     /\ Len(ar[a].slots) = ar[a].num_defers
     /\ \A i \in 1..Len(act) :
          ar[a].slots[act[i] + 1].prev = (IF i = 1 THEN SIZE_MAX ELSE act[i - 1])

(* C7: while the arena is active, the active list and the free list each    *)
(* end in SIZE_MAX without repeating a slot, every slot below num_defers    *)
(* is on exactly one of them, and prev mirrors next on the active list.     *)
C7_SlotPartition == Active(Root) => SlotListsOk(Root)

\* two slots are active and one is free, after a cancellation in the middle
\* of the list
C7_Witness ==
  /\ Active(Root)
  /\ Len(ActiveChain(Root)) >= 2
  /\ Len(FreeChain(Root)) >= 1
  /\ ActiveChain(Root) # <<-1>>
  /\ \E i \in 1..Len(ActiveChain(Root)) : ActiveChain(Root)[i] > FreeChain(Root)[1]
  /\ \E i \in 1..Len(ActiveChain(Root)) : ActiveChain(Root)[i] < FreeChain(Root)[1]

----------------------------------------------------------------------------
(* Caller actions on blocks.  rt is the caller's own record: how many       *)
(* blocks it has asked for, the pointers it has released and not been       *)
(* handed again (most recent last, with the class of the request they were  *)
(* released under), and what it saw at its latest allocation.               *)

\* request sizes with a footprint inside the small range
SmallSizes == {20, 25, 30, 264, 440}

\* request sizes just past the threshold, far past it, and at the top of
\* the size_t range
BigSizes == {441, 5000, SIZE_MAX - 7}

Paging(a) == <<ar[a].page, ar[a].pos, ar[a].size, ar[a].next_size>>

\* index of the most recently released pointer of class c, or 0
RECURSIVE LastGiven(_, _, _)
LastGiven(q, c, i) ==
  IF i = 0 THEN 0
  ELSE IF q[i].class = c THEN i
  ELSE LastGiven(q, c, i - 1)

\* the caller notes what it was handed and what it expected
AllocDone(S, a, size, j) ==
  /\ Commit(S)
  /\ rt' = [n |-> rt.n + 1,
            given |-> SelectSeq(rt.given, LAMBDA g : g.ptr # S.ret),
            reused |-> IF j # 0 THEN rt.reused + 1 ELSE rt.reused,
            last |-> [expect |-> IF j = 0 THEN NULL ELSE rt.given[j].ptr,
                      got |-> S.ret, size |-> size, paging |-> Paging(a)]]

Alloc(a, size) ==
  /\ fault = "none"
  /\ Active(a)
  /\ rt.n < MaxAllocs
  /\ Len(sys) < MaxChunks
  /\ AllocDone(aalloc_uninit_size(Heap, a, size, 1), a, size,
               LastGiven(rt.given,
                         IF AllocIsSmall(size)
                         THEN SizeClass(AddW(SizeofSmallHeader, size)) ELSE -1,
                         Len(rt.given)))
  /\ UNCHANGED <<regs, kids, wraps, call>>

UserBlocks(a) ==
  {p \in DOMAIN blk : blk[p].live /\ blk[p].own = "user" /\ blk[p].arena = a}

Afree(a, ptr) ==
  /\ fault = "none"
  /\ Active(a)
  /\ ptr \in UserBlocks(a)
  /\ Commit(afree(Heap, a, ptr))
  /\ rt' = [rt EXCEPT !.given =
              IF AllocIsSmall(blk[ptr].req)
              THEN Append(@, [ptr |-> ptr,
                              class |-> SizeClass(AddW(SizeofSmallHeader, blk[ptr].req))])
              ELSE @]
  /\ UNCHANGED <<regs, kids, wraps, call>>

AfreeAny(a) == \E ptr \in UserBlocks(a) : Afree(a, ptr)

NextSmall ==
  \/ \E size \in SmallSizes : Alloc(Root, size)
  \/ AfreeAny(Root)

SpecSmall == Init /\ [][NextSmall]_vars

NextAlloc ==
  \/ \E size \in SmallSizes \cup BigSizes : Alloc(Root, size)
  \/ AfreeAny(Root)

SpecAlloc == Init /\ [][NextAlloc]_vars

----------------------------------------------------------------------------
(* Definitions for C4 *)

LiveBlocks ==
  {p \in DOMAIN blk : blk[p].live /\ blk[p].own \in {"user", "table", "wrapper"}}

HeaderBytes(p) == IF blk[p].path = "big" THEN SizeofBigHeader ELSE SizeofSmallHeader

\* the req bytes at p reach into [q - header, q + req of q)
Overlaps(p, q) ==
  /\ (q - HeaderBytes(q)) - p < blk[p].req
  /\ p - q < blk[q].req

(* C4: the bytes a live block was requested for never overlap the header    *)
(* or the payload of another live block.                                    *)
C4_NoOverlap ==
  \A p \in LiveBlocks : \A q \in LiveBlocks \ {p} : ~Overlaps(p, q)

----------------------------------------------------------------------------
(* C5: a small allocation made while a released block of its size class is  *)
(* available returns the most recently released block of that class and     *)
(* leaves page, pos, size and next_size as they were; so re-allocating the  *)
(* sizes of blocks that were all released never bumps or grows a page.      *)

C5_ReuseBeforeGrowth ==
  /\ fault = "none"
  /\ rt.last.expect # NULL =>
       /\ rt.last.got = rt.last.expect
       /\ Active(Root) /\ Paging(Root) = rt.last.paging

\* two blocks were allocated and both released, and both re-allocations
\* have been served from the released blocks
C5_Witness ==
  /\ rt.reused >= 2
  /\ rt.given = <<>>
  /\ rt.last.expect # NULL
  /\ blk[rt.last.got].req = rt.last.size
  /\ \E p \in UserBlocks(Root) : p # rt.last.got

----------------------------------------------------------------------------
(* Definitions for C6 *)

\* the headers from h on, following next, up to and including big_tail
RECURSIVE RingNodes(_, _, _)
RingNodes(h, last, fuel) ==
  IF h = last THEN <<h>>
  ELSE IF fuel = 0 \/ (h + OffNext) \notin DOMAIN mem THEN <<h, -1>>
  ELSE <<h>> \o RingNodes(mem[h + OffNext], last, fuel - 1)

LinkedBothWays(n) ==
  /\ (n + OffNext) \in DOMAIN mem
  /\ (mem[n + OffNext] + OffPrev) \in DOMAIN mem
  /\ mem[mem[n + OffNext] + OffPrev] = n
  /\ (n + OffPrev) \in DOMAIN mem
  /\ (mem[n + OffPrev] + OffNext) \in DOMAIN mem
  /\ mem[mem[n + OffPrev] + OffNext] = n

BigBlocks(a) ==
  {p - SizeofBigHeader : p \in {q \in DOMAIN blk : blk[q].live /\ blk[q].path = "big"
                                                   /\ blk[q].arena = a}}

(* C6: while the arena is active the big-object list is a ring in both      *)
(* directions: every node n from big_head to big_tail has n.next.prev = n   *)
(* and n.prev.next = n, the nodes between the two are exactly the live big  *)
(* blocks, and with none of them head.next = tail and tail.next = head.     *)
C6_RingValid ==
  Active(Root) =>
    LET ring == RingNodes(Root + OffBigHead, Root + OffBigTail, Len(sys) + 1)
    IN /\ -1 \notin SeqRange(ring)
       /\ \A i \in 1..Len(ring) : LinkedBothWays(ring[i])
       /\ SeqRange(ring) \ {Root + OffBigHead, Root + OffBigTail} = BigBlocks(Root)
       /\ BigBlocks(Root) = {} =>
            /\ mem[Root + OffBigHead + OffNext] = Root + OffBigTail
            /\ mem[Root + OffBigTail + OffNext] = Root + OffBigHead

----------------------------------------------------------------------------
(* Definitions for C8 *)

ServedSmall(p) == blk[p].path \in {"reuse", "bump", "page"}

(* C8: a live block was served by the small path exactly when afree will    *)
(* take the small path for the capacity in its header.                      *)
C8_SamePath ==
  \A p \in DOMAIN blk :
    blk[p].live /\ (p - SizeofCommonHeader) \in DOMAIN mem
      => (ServedSmall(p) <=> FreeIsSmall(mem[p - SizeofCommonHeader]))

----------------------------------------------------------------------------
(* Caller actions on child arenas.  kids is the caller's own record of the  *)
(* arenas it made besides Root: the address, how it was made, its parent,   *)
(* how often the caller itself destroyed it, and how many operations the    *)
(* caller tried on it after its teardown.                                   *)

\* caller-owned storage (a local or a member) for an in-place arena: it is
\* not a block of the system allocator, so free() must never see it
Reserve(S, bytes) ==
  [S EXCEPT !.sys = Append(@, [bytes |-> bytes, frees |-> 0, kind |-> "caller"]),
            !.ret = (Len(S.sys) + 1) * Stride]

Kid(arena, made, parent) ==
  [arena |-> arena, made |-> made, parent |-> parent, destroyed |-> 0, misused |-> 0]

\* the caller keeps the arena pointer it was returned
CreateChildDone(S, parent) ==
  /\ Commit(S)
  /\ kids' = IF Ok(S) /\ S.ret # NULL
             THEN Append(kids, Kid(S.ret, "create", parent)) ELSE kids

CreateChild ==
  /\ fault = "none"
  /\ Active(Root)
  /\ Len(kids) < MaxKids
  /\ Len(sys) < MaxChunks
  /\ CreateChildDone(arena_create(Heap, Root), Root)
  /\ UNCHANGED <<regs, rt, wraps, call>>

\* the caller keeps the address of its storage when arena_init returned true
InitChildDone(S, arena, parent) ==
  /\ Commit(S)
  /\ kids' = IF Ok(S) /\ S.ret = 1
             THEN Append(kids, Kid(arena, "init", parent)) ELSE kids

InitChild ==
  /\ fault = "none"
  /\ Active(Root)
  /\ Len(kids) < MaxKids
  /\ Len(sys) < MaxChunks
  /\ InitChildDone(arena_init(Reserve(Heap, ARENAIMP_INIT_SIZE),
                              (Len(sys) + 1) * Stride, Root),
                   (Len(sys) + 1) * Stride, Root)
  /\ UNCHANGED <<regs, rt, wraps, call>>

\* request sizes used on child arenas: one small, one big
KidSizes == {20, 5000}

KidAlloc(i, size) ==
  /\ i <= Len(kids)
  /\ rt.n < MaxTouch
  /\ Alloc(kids[i].arena, size)

KidDefer(i) ==
  /\ i <= Len(kids)
  /\ regs.n < MaxTouch
  /\ ExtDefer(kids[i].arena)

\* arena_free(child) by the caller, while the parent (if any) is active
DestroyKid(i) ==
  /\ fault = "none"
  /\ i <= Len(kids)
  /\ Active(kids[i].arena)
  /\ kids[i].parent # NULL => Active(kids[i].parent)
  /\ Commit(arena_free(Heap, kids[i].arena))
  /\ kids' = [kids EXCEPT ![i].destroyed = @ + 1]
  /\ UNCHANGED <<regs, rt, wraps, call>>

NextTree ==
  \/ CreateChild
  \/ InitChild
  \/ \E i \in 1..MaxKids, size \in KidSizes : KidAlloc(i, size)
  \/ \E i \in 1..MaxKids : KidDefer(i)
  \/ \E i \in 1..MaxKids : DestroyKid(i)
  \/ ArenaFree(Root)

SpecTree == Init /\ [][NextTree]_vars

TornCount(a) == IF a \in DOMAIN torn THEN torn[a] ELSE 0

----------------------------------------------------------------------------
(* Definitions for C2 *)

TwoCreatedKids ==
  /\ Len(kids) = 2
  /\ \A i \in 1..2 : kids[i].made = "create" /\ kids[i].destroyed = 0

(* C2: after arena_free of a parent with two children made by               *)
(* arena_create(parent), neither destroyed by the caller, each child has    *)
(* been torn down exactly once, no assertion failed, nothing undefined      *)
(* happened and no block of the system allocator was freed twice.           *)
C2_ParentTeardown ==
  (TornCount(Root) > 0 /\ TwoCreatedKids) =>
     /\ fault = "none"
     /\ \A i \in 1..2 : TornCount(kids[i].arena) = 1
     /\ \A k \in 1..Len(sys) : sys[k].frees <= 1

----------------------------------------------------------------------------
(* Definitions for C3 *)

TargetsOnActiveList(a) ==
  IF ActiveChain(a) = <<-1>> THEN {-1}
  ELSE {ar[a].slots[ActiveChain(a)[j] + 1].user : j \in 1..Len(ActiveChain(a))}

(* C3: once the caller has destroyed a child of Root while Root was         *)
(* active, no active slot of Root targets that child any more, and the      *)
(* child is not torn down a second time.                                    *)
C3_DestroyDetaches ==
  \A i \in 1..Len(kids) :
    (kids[i].destroyed > 0 /\ kids[i].parent = Root) =>
       /\ TornCount(kids[i].arena) = 1
       /\ fault \notin {"abort:arena_free_magic"}
       /\ Active(Root) => kids[i].arena \notin TargetsOnActiveList(Root)

----------------------------------------------------------------------------
(* Caller actions on deferred blocks.  wraps is the caller's own record of  *)
(* the pointers arena_defer_size returned: the finalizer passed, whether    *)
(* the block is still managed, was cancel-retained (and whether the caller  *)
(* asked for the finalizer to run), was then released with afree, or was    *)
(* cancelled in full.                                                       *)

\* payload sizes of deferred blocks: two small footprints of different
\* classes and one big
WrapSizes == {8, 100, 1000}

DeferSizeDone(S, fn) ==
  /\ Commit(S)
  /\ wraps' = IF Ok(S) /\ S.ret # NULL
              THEN Append(wraps, [ptr |-> S.ret, fn |-> fn, state |-> "managed",
                                  ran |-> FALSE])
              ELSE wraps
  /\ regs' = [regs EXCEPT !.n = @ + 1]

DeferSize(a, size) ==
  /\ fault = "none"
  /\ Active(a)
  /\ Len(wraps) < MaxWraps
  /\ Len(sys) < MaxChunks
  /\ DeferSizeDone(arena_defer_size(Heap, a, FnOf(regs.n + 1), size), FnOf(regs.n + 1))
  /\ UNCHANGED <<rt, kids, call>>

CancelRetain(a, i, run_defer) ==
  /\ fault = "none"
  /\ Active(a)
  /\ i <= Len(wraps)
  /\ wraps[i].state = "managed"
  /\ Commit(arena_cancel_retain(Heap, a, wraps[i].ptr, run_defer))
  /\ wraps' = [wraps EXCEPT ![i].state = "retained", ![i].ran = run_defer]
  /\ UNCHANGED <<regs, rt, kids, call>>

\* the manual release of a retained block: afree on the pointer the caller holds
Release(a, i) ==
  /\ fault = "none"
  /\ Active(a)
  /\ i <= Len(wraps)
  /\ wraps[i].state = "retained"
  /\ Commit(afree(Heap, a, wraps[i].ptr))
  /\ wraps' = [wraps EXCEPT ![i].state = "released"]
  /\ UNCHANGED <<regs, rt, kids, call>>

Cancel(a, i, run_defer) ==
  /\ fault = "none"
  /\ Active(a)
  /\ i <= Len(wraps)
  /\ wraps[i].state = "managed"
  /\ Commit(arena_cancel(Heap, a, wraps[i].ptr, run_defer))
  /\ wraps' = [wraps EXCEPT ![i].state = "cancelled", ![i].ran = run_defer]
  /\ UNCHANGED <<regs, rt, kids, call>>

NextWrap ==
  \/ \E size \in WrapSizes : DeferSize(Root, size)
  \/ \E i \in 1..MaxWraps, r \in BOOLEAN : CancelRetain(Root, i, r)
  \/ \E i \in 1..MaxWraps : Release(Root, i)
  \/ \E i \in 1..MaxWraps, r \in BOOLEAN : Cancel(Root, i, r)
  \/ ArenaFree(Root)

SpecWrap == Init /\ [][NextWrap]_vars

\* the calls made so far of the finalizer fn on the block ptr
CallsOf(fn, ptr) == {j \in 1..Len(log) : log[j].fn = fn /\ log[j].user = ptr}

----------------------------------------------------------------------------
(* C9: once a deferred block has been cancel-retained with run_defer =      *)
(* false, its finalizer is never called, neither by the manual release nor  *)
(* by the teardown of the arena, and the manual release succeeds: it hits   *)
(* no failed assertion and does nothing undefined.                          *)

C9_RetainThenRelease ==
  \A i \in 1..Len(wraps) :
    (wraps[i].state \in {"retained", "released"} /\ ~wraps[i].ran) =>
       /\ CallsOf(wraps[i].fn, wraps[i].ptr) = {}
       /\ wraps[i].state = "released" => fault = "none"

----------------------------------------------------------------------------
(* Caller actions on an arena in caller storage, before and after its       *)
(* teardown.  The storage outlives the teardown, so the validity tag of a   *)
(* torn-down arena can still be read.                                       *)

InPlace == kids[1].arena

InitInPlace ==
  /\ fault = "none"
  /\ Len(kids) = 0
  /\ InitChildDone(arena_init(Reserve(Heap, ARENAIMP_INIT_SIZE),
                              (Len(sys) + 1) * Stride, NULL),
                   (Len(sys) + 1) * Stride, NULL)
  /\ UNCHANGED <<regs, rt, wraps, call>>

\* the arena has been torn down and the caller goes on using it
Torn(i) ==
  /\ fault = "none"
  /\ i <= Len(kids)
  /\ TornCount(kids[i].arena) > 0
  /\ kids[i].misused < MaxMisuse

Misused(i) == kids' = [kids EXCEPT ![i].misused = @ + 1]

\* registrations on arena a whose slot index the caller still holds
HeldSlots(a) == {regs.live[j].slot : j \in {k \in 1..Len(regs.live) : regs.live[k].arena = a}}

TornAlloc(i, size) ==
  /\ Torn(i)
  /\ Commit(aalloc_uninit_size(Heap, kids[i].arena, size, 1))
  /\ Misused(i)
  /\ UNCHANGED <<regs, rt, wraps, call>>

TornAfreeOf(i, ptr) ==
  /\ Commit(afree(Heap, kids[i].arena, ptr))
  /\ Misused(i)
  /\ UNCHANGED <<regs, rt, wraps, call>>

TornAfree(i) ==
  /\ Torn(i)
  /\ \E ptr \in UserBlocks(kids[i].arena) : TornAfreeOf(i, ptr)

\* resize requests: one inside the capacity of a 20-byte block, one beyond
ResizeCounts == {10, 100}

TornReallocOf(i, ptr, count) ==
  /\ Commit(arealloc_size(Heap, kids[i].arena, 1, count, ptr))
  /\ Misused(i)
  /\ UNCHANGED <<regs, rt, wraps, call>>

TornRealloc(i, count) ==
  /\ Torn(i)
  /\ \E ptr \in UserBlocks(kids[i].arena) : TornReallocOf(i, ptr, count)

TornExtDefer(i) ==
  /\ Torn(i)
  /\ Commit(arena_ext_defer(Heap, kids[i].arena, "Z", 0))
  /\ Misused(i)
  /\ UNCHANGED <<regs, rt, wraps, call>>

TornExtRedefer(i, slot) ==
  /\ Torn(i)
  /\ slot \in HeldSlots(kids[i].arena)
  /\ Commit(arena_ext_redefer(Heap, kids[i].arena, slot, "Z", 0))
  /\ Misused(i)
  /\ UNCHANGED <<regs, rt, wraps, call>>

TornExtCancel(i, slot) ==
  /\ Torn(i)
  /\ slot \in HeldSlots(kids[i].arena)
  /\ Commit(arena_ext_cancel(Heap, kids[i].arena, slot, FALSE))
  /\ Misused(i)
  /\ UNCHANGED <<regs, rt, wraps, call>>

TornDeferSize(i, size) ==
  /\ Torn(i)
  /\ Commit(arena_defer_size(Heap, kids[i].arena, "Z", size))
  /\ Misused(i)
  /\ UNCHANGED <<regs, rt, wraps, call>>

TornArenaFree(i) ==
  /\ Torn(i)
  /\ Commit(arena_free(Heap, kids[i].arena))
  /\ Misused(i)
  /\ UNCHANGED <<regs, rt, wraps, call>>

NextTorn ==
  \/ InitInPlace
  \/ \E size \in KidSizes : KidAlloc(1, size)
  \/ KidDefer(1)
  \/ DestroyKid(1)
  \/ \E size \in KidSizes : TornAlloc(1, size)
  \/ TornAfree(1)
  \/ \E count \in ResizeCounts : TornRealloc(1, count)
  \/ TornExtDefer(1)
  \/ \E slot \in 0..MaxRegs : TornExtRedefer(1, slot)
  \/ \E slot \in 0..MaxRegs : TornExtCancel(1, slot)
  \/ \E size \in WrapSizes : TornDeferSize(1, size)
  \/ TornArenaFree(1)

SpecTorn == Init /\ [][NextTorn]_vars

\* what a failed assertion of the validity tag leaves in fault
TagAborts ==
  {"abort:aalloc_magic", "abort:ext_defer_magic", "abort:ext_redefer_magic",
   "abort:ext_cancel_magic", "abort:defer_size_magic", "abort:arena_free_magic"}

----------------------------------------------------------------------------
(* C10: in a debug build, every operation on an arena that has been torn    *)
(* down stops at the assertion on the validity tag, with the arena, the     *)
(* memory, the system allocator and the finalizer log as they were.         *)

C10_TornCaught ==
  [][(~ndebug /\ fault = "none" /\ Len(kids) > 0 /\ TornCount(InPlace) > 0)
       => (/\ fault' \in TagAborts
           /\ ar' = ar /\ mem' = mem /\ sys' = sys /\ log' = log)]_vars

----------------------------------------------------------------------------
(* Caller actions while the system allocator may give out.  Each call is    *)
(* made with room for -1 (any number of), 0 or 1 more malloc blocks; call   *)
(* is the caller's record of its latest call: its number, the operation,    *)
(* what it returned, how many mallocs failed inside it, its argument (the   *)
(* bytes asked for, or the parent), and what aalloc_capacity_bytes said of  *)
(* the pointer returned (-1 until asked).                                   *)

Rooms == {-1, 0, 1}

\* request sizes: a small one, one that fills the first page, a big one
OomSizes == {20, 264, 5000}

\* the operations that hand a block or an arena to the caller
AllocOps ==
  {"aalloc_uninit_size", "aalloc_size", "aalloc_copy_size", "arealloc_size",
   "arena_defer_size", "arena_create"}

Called(S, op, arg) ==
  /\ Commit(S)
  /\ call' = [n |-> call.n + 1, op |-> op, ret |-> S.ret, mfail |-> S.mfail,
              arg |-> arg, cap |-> -1]

CanCall ==
  /\ fault = "none"
  /\ Active(Root)
  /\ call.n < MaxCalls
  /\ Len(sys) < MaxChunks

OomAlloc(size, k) ==
  /\ CanCall
  /\ Called(aalloc_uninit_size(HeapShort(k), Root, size, 1), "aalloc_uninit_size", size)
  /\ UNCHANGED <<regs, rt, kids, wraps>>

OomAllocZero(size, k) ==
  /\ CanCall
  /\ Called(aalloc_size(HeapShort(k), Root, size, 1), "aalloc_size", size)
  /\ UNCHANGED <<regs, rt, kids, wraps>>

OomAllocCopy(size, k) ==
  /\ CanCall
  /\ Called(aalloc_copy_size(HeapShort(k), Root, size, 1), "aalloc_copy_size", size)
  /\ UNCHANGED <<regs, rt, kids, wraps>>

OomReallocOf(ptr, count, k) ==
  /\ Called(arealloc_size(HeapShort(k), Root, 1, count, ptr), "arealloc_size", count)
  /\ UNCHANGED <<regs, rt, kids, wraps>>

OomRealloc(count, k) ==
  /\ CanCall
  /\ \E ptr \in UserBlocks(Root) : OomReallocOf(ptr, count, k)

OomDeferSize(size, k) ==
  /\ CanCall
  /\ Called(arena_defer_size(HeapShort(k), Root, "A", size), "arena_defer_size", size)
  /\ UNCHANGED <<regs, rt, kids, wraps>>

OomExtDefer(k) ==
  /\ CanCall
  /\ Called(arena_ext_defer(HeapShort(k), Root, "A", call.n + 1), "arena_ext_defer", 0)
  /\ UNCHANGED <<regs, rt, kids, wraps>>

\* arena_create(parent): the caller keeps the arena it was returned
OomCreateDone(S, parent) ==
  /\ Called(S, "arena_create", parent)
  /\ kids' = IF Ok(S) /\ S.ret # NULL
             THEN Append(kids, Kid(S.ret, "create", parent)) ELSE kids

OomCreate(parent, k) ==
  /\ CanCall
  /\ OomCreateDone(arena_create(HeapShort(k), parent), parent)
  /\ UNCHANGED <<regs, rt, wraps>>

\* arena_init(storage, Root) on fresh caller storage
OomInitDone(S, arena) ==
  /\ Called(S, "arena_init", arena)
  /\ kids' = IF Ok(S) /\ S.ret = 1
             THEN Append(kids, Kid(arena, "init", Root)) ELSE kids

OomInit(k) ==
  /\ CanCall
  /\ OomInitDone(arena_init([Reserve(Heap, ARENAIMP_INIT_SIZE) EXCEPT !.room = k],
                            (Len(sys) + 1) * Stride, Root),
                 (Len(sys) + 1) * Stride)
  /\ UNCHANGED <<regs, rt, wraps>>

\* the caller asks for the capacity behind the pointer it was just returned
CapacityDone(S) ==
  /\ Commit(S)
  /\ call' = [call EXCEPT !.cap = S.ret]

OomCapacity ==
  /\ fault = "none"
  /\ call.op \in AllocOps \ {"arena_create"}
  /\ call.ret # NULL
  /\ call.cap = -1
  /\ CapacityDone(aalloc_capacity_bytes(Heap, call.ret))
  /\ UNCHANGED <<regs, rt, kids, wraps>>

NextOom ==
  \/ \E size \in OomSizes, k \in Rooms : OomAlloc(size, k)
  \/ \E size \in OomSizes, k \in Rooms : OomAllocZero(size, k)
  \/ \E size \in OomSizes, k \in Rooms : OomAllocCopy(size, k)
  \/ \E count \in OomSizes, k \in Rooms : OomRealloc(count, k)
  \/ \E size \in OomSizes, k \in Rooms : OomDeferSize(size, k)
  \/ \E k \in Rooms : OomExtDefer(k)
  \/ \E parent \in {NULL, Root}, k \in Rooms : OomCreate(parent, k)
  \/ \E k \in Rooms : OomInit(k)
  \/ OomCapacity

SpecOom == Init /\ [][NextOom]_vars

(* C11: when malloc returned NULL inside an allocating operation, the       *)
(* operation returned NULL to its caller: no assertion failed and nothing   *)
(* was written through the null pointer.                                    *)
C11_NullOnFailure ==
  (call.op \in AllocOps /\ call.mfail > 0) => (fault = "none" /\ call.ret = NULL)

(* C12: a call of arena_ext_defer that returns SIZE_MAX leaves the arena    *)
(* as it was: the slot table, num_defers, both list heads, every slot, the  *)
(* page, its cursor and capacity, the growth hint, the free-list heads and  *)
(* the big ring.                                                            *)
C12_FailedDeferRollsBack ==
  [][(/\ call'.n # call.n
      /\ call'.op = "arena_ext_defer"
      /\ fault' = "none"
      /\ call'.ret = SIZE_MAX)
       => (ar'[Root] = ar[Root] /\ mem' = mem)]_vars

----------------------------------------------------------------------------
(* Definitions for C13 *)

\* what a failed assertion other than the validity tag's leaves in fault
AssertAborts ==
  TagAborts \cup {"abort:afree_links", "abort:big_alloc", "abort:cancel_magic",
                  "abort:defer_size_alloc", "abort:ext_defer_fn", "abort:page_size"}

\* the headers chained from p through next_free; -1 when the chain leaves
\* the words the allocator wrote or does not end
RECURSIVE FreeList(_, _)
FreeList(p, fuel) ==
  IF p = NULL THEN {}
  ELSE IF fuel = 0 \/ p \notin DOMAIN mem THEN {-1}
  ELSE {p} \cup FreeList(mem[p], fuel - 1)

OnFreeLists(a) ==
  UNION {FreeList(ar[a].next_free[c], Cardinality(DOMAIN blk) + 1) :
           c \in 0..(ARENAIMP_NUM_SIZECLASSES - 1)}

\* the arenas that active slots of a are registered to destroy
ChildTargets(a) ==
  IF ActiveChain(a) = <<-1>> THEN {-1}
  ELSE {ar[a].slots[ActiveChain(a)[j] + 1].user :
          j \in {i \in 1..Len(ActiveChain(a)) :
                   ar[a].slots[ActiveChain(a)[i] + 1].fn = FN_FREE_ARENA}}

\* the blocks arena a handed out itself, by header address
OwnSmallHeaders(a) ==
  {q - SizeofSmallHeader : q \in {r \in DOMAIN blk : blk[r].arena = a}}

(* C13: when the creation of a child of Root has failed for want of memory  *)
(* after the child's own storage was obtained (and did not stop at an       *)
(* assertion), nothing undefined has happened, the                          *)
(* only child-destroying slots on Root's active list are those of the       *)
(* children that were created, Root's free lists hold only blocks Root      *)
(* handed out itself, and its big ring holds only its live big blocks.      *)
C13_FailedChildNoTrace ==
  (/\ call.op \in {"arena_create", "arena_init"}
   /\ call.mfail > 0
   /\ call.op = "arena_create" => call.arg = Root
   /\ fault \notin AssertAborts \cup {"ub:null_write"}) =>
     /\ fault = "none"
     /\ (call.op = "arena_create" => call.ret = NULL) /\ (call.op = "arena_init" => call.ret = 0)
     /\ ChildTargets(Root) \subseteq {kids[i].arena : i \in 1..Len(kids)}
     /\ OnFreeLists(Root) \subseteq OwnSmallHeaders(Root)
     /\ SeqRange(RingNodes(Root + OffBigHead, Root + OffBigTail, Len(sys) + 1))
          \ {Root + OffBigHead, Root + OffBigTail} \subseteq BigBlocks(Root)

----------------------------------------------------------------------------
(* C14: aalloc_capacity_bytes on the pointer an allocating operation        *)
(* returned for n bytes reads nothing undefined and returns at least n.     *)
C14_CapacityCoversRequest ==
  call.cap # -1 => (fault = "none" /\ call.cap >= call.arg)

----------------------------------------------------------------------------
(* The list helpers.  An arenaimp_alist is the caller's struct at address   *)
(* list: data in its first word, count in its second.  Elements are one     *)
(* word long.                                                               *)

\* offsetof(arenaimp_alist, count)
OffCount == 8

ElemSize == SizeofPtr

\* alist_push_size after arealloc_size returned in R
alist_push_store(R, size, list, index, item) ==
  IF ~Ok(R) \/ R.ret = NULL THEN R
  ELSE Ret(Store(Store(Store(R, list, R.ret), R.ret + index * size, item),
                 list + OffCount, index + 1),
           R.ret + index * size)

alist_push_size(S, arena, size, list, item) ==
  IF ~Ok(S) THEN S
  ELSE alist_push_store(arealloc_size(S, arena, size, AddW(S.mem[list + OffCount], 1),
                                      S.mem[list]),
                        size, list, S.mem[list + OffCount], item)

alist_pop_size(S, size, list) ==
  IF ~Ok(Chk(S, S.mem[list + OffCount] > 0, "abort:pop_empty"))
  THEN Chk(S, S.mem[list + OffCount] > 0, "abort:pop_empty")
  ELSE IF S.mem[list + OffCount] = 0 THEN Ret(S, NULL)
  ELSE Ret(Store(S, list + OffCount, S.mem[list + OffCount] - 1),
           S.mem[list] + (S.mem[list + OffCount] - 1) * size)

\* if (index != last) { src = data + index * size; dst = data + last * size;
\*                      memcpy(dst, src, size); }
alist_remove_copy(S, size, list, index, last) ==
  IF index # last
  THEN memcpy(S, S.mem[list] + last * size, S.mem[list] + index * size, size)
  ELSE S

\* size_t last = --list->count; ...; ret is 1 for true, 0 for false
alist_remove_size(S, size, list, index) ==
  IF ~Ok(Chk(S, index < S.mem[list + OffCount], "abort:remove_index"))
  THEN Chk(S, index < S.mem[list + OffCount], "abort:remove_index")
  ELSE IF index >= S.mem[list + OffCount] THEN Ret(S, 0)
  ELSE Ret(alist_remove_copy(Store(S, list + OffCount, S.mem[list + OffCount] - 1),
                             size, list, index, S.mem[list + OffCount] - 1),
           1)

----------------------------------------------------------------------------
(* Caller actions on one list kept in caller storage next to the root      *)
(* arena.                                                                   *)

\* how many list operations a behaviour makes
MaxListOps == 4

\* the values pushed
Items == {1, 2, 3}

\* element counts asked for directly: in place, the doubling of 10 to 11,
\* a big block and a bigger one
ReserveCounts == {3, 10, 11, 60, 130}

\* the caller's list struct: the block after the root arena's
ListAt == 2 * Stride

EmptyList(S) == Store(Store(S, S.ret, NULL), S.ret + OffCount, 0)

InitList ==
  \E nd \in BOOLEAN :
    InitFrom(EmptyList(Reserve(arena_create(EmptyHeap(nd), NULL), 2 * SizeofPtr)))

CanList ==
  /\ fault = "none"
  /\ Active(Root)
  /\ call.n < MaxListOps
  /\ Len(sys) < MaxChunks

ListPush(item) ==
  /\ CanList
  /\ Called(alist_push_size(Heap, Root, ElemSize, ListAt, item), "alist_push_size", item)
  /\ UNCHANGED <<regs, rt, kids, wraps>>

ListPop ==
  /\ CanList
  /\ mem[ListAt + OffCount] > 0
  /\ Called(alist_pop_size(Heap, ElemSize, ListAt), "alist_pop_size", 0)
  /\ UNCHANGED <<regs, rt, kids, wraps>>

ListRemove(index) ==
  /\ CanList
  /\ index < mem[ListAt + OffCount]
  /\ Called(alist_remove_size(Heap, ElemSize, ListAt, index), "alist_remove_size", index)
  /\ UNCHANGED <<regs, rt, kids, wraps>>

\* list.data = arealloc_size(arena, size, count, list.data)
ReserveDone(S, count) ==
  Called(IF Ok(S) /\ S.ret # NULL THEN Store(S, ListAt, S.ret) ELSE S,
         "arealloc_size", count * ElemSize)

ListReserve(count) ==
  /\ CanList
  /\ ReserveDone(arealloc_size(Heap, Root, ElemSize, count, mem[ListAt]), count)
  /\ UNCHANGED <<regs, rt, kids, wraps>>

NextList ==
  \/ \E item \in Items : ListPush(item)
  \/ ListPop
  \/ \E index \in 0..(MaxListOps - 1) : ListRemove(index)
  \/ \E count \in ReserveCounts : ListReserve(count)

SpecList == InitList /\ [][NextList]_vars

\* element j (from 0) of the list as the memory m holds it; -1 if never written
ElemAt(m, j) ==
  IF m[ListAt] + j * ElemSize \in DOMAIN m THEN m[m[ListAt] + j * ElemSize] ELSE -1

(* C15: alist_remove_size with index i below the count n leaves n-1         *)
(* elements: position i holds the former last element (for i not the last   *)
(* index) and every other position below n-1 holds what it held.            *)
C15_RemoveSwapsLast ==
  [][(call'.n # call.n /\ call'.op = "alist_remove_size")
       => /\ fault' = "none"
          /\ call'.ret = 1
          /\ mem'[ListAt + OffCount] = mem[ListAt + OffCount] - 1
          /\ mem'[ListAt] = mem[ListAt]
          /\ \A j \in 0..(mem[ListAt + OffCount] - 2) :
               ElemAt(mem', j) = IF j = call'.arg
                                 THEN ElemAt(mem, mem[ListAt + OffCount] - 1)
                                 ELSE ElemAt(mem, j)]_vars

----------------------------------------------------------------------------
(* Definitions for C16 *)

\* the bytes a resizing call asks for: alist_push_size asks for one element
\* more than the list holds
Asked ==
  IF call'.op = "alist_push_size" THEN (mem[ListAt + OffCount] + 1) * ElemSize
  ELSE call'.arg

\* a step that resizes the list's existing block
Resized ==
  /\ call'.n # call.n
  /\ call'.op \in {"arealloc_size", "alist_push_size"}
  /\ mem[ListAt] # NULL

OldCap == mem[mem[ListAt] - SizeofCommonHeader]

Larger(a, b) == IF a >= b THEN a ELSE b

\* the nodes of the big ring of arena a, sentinels included
RingOf(a) == SeqRange(RingNodes(a + OffBigHead, a + OffBigTail, Len(sys) + 1))

\* after the step the list's old block is no longer the arena's: a small
\* one is on a free list, a big one is off the ring
Released ==
  IF FreeIsSmall(OldCap) THEN (mem[ListAt] - SizeofSmallHeader) \in OnFreeLists(Root)'
  ELSE (mem[ListAt] - SizeofBigHeader) \notin RingOf(Root)'

(* C16: arealloc_size on an existing block of capacity c, asked for t       *)
(* bytes: for t <= c it returns the same pointer and changes nothing (a     *)
(* push then writes its element and the count, nothing else); for t > c it  *)
(* returns another block of capacity max(2c, t) whose first c bytes are     *)
(* the old block's, and the old block is released to the arena.             *)
C16_GrowthAndCopy ==
  [][Resized =>
       /\ fault' = "none"
       /\ Asked <= OldCap =>
            /\ mem'[ListAt] = mem[ListAt]
            /\ ar' = ar /\ sys' = sys
            /\ \A w \in DOMAIN mem \ {ListAt + OffCount,
                                      mem[ListAt] + mem[ListAt + OffCount] * ElemSize} :
                 w \in DOMAIN mem' /\ mem'[w] = mem[w]
            /\ call'.op = "arealloc_size" => mem' = mem
       /\ Asked > OldCap =>
            /\ mem'[ListAt] \notin {NULL, mem[ListAt]}
            /\ mem'[mem'[ListAt] - SizeofCommonHeader] = Larger(2 * OldCap, Asked)
            /\ \A w \in {x \in DOMAIN mem : x >= mem[ListAt] /\ x < mem[ListAt] + OldCap} :
                 /\ mem'[ListAt] + (w - mem[ListAt]) \in DOMAIN mem'
                 /\ mem'[mem'[ListAt] + (w - mem[ListAt])] = mem[w]
            /\ Released]_vars

\* the list holds an element and its block was just moved from 80 to 160
\* bytes by a request for 11 elements
C16_Witness ==
  /\ call.op = "arealloc_size"
  /\ call.arg = 11 * ElemSize
  /\ fault = "none"
  /\ mem[ListAt + OffCount] > 0
  /\ mem[mem[ListAt] - SizeofCommonHeader] = 20 * ElemSize
  /\ ElemAt(mem, 0) \in Items

----------------------------------------------------------------------------
(* The size-class lookup on its own.  The footprint (header and payload) is *)
(* drawn at the start and kept in call.arg; the lookup is what allocation   *)
(* and release both compute from it: the class in call.ret, its bucket      *)
(* size in call.cap.                                                        *)

Footprints == 1..ARENAIMP_LARGEST_SIZECLASS

InitClass ==
  \E nd \in BOOLEAN, total_small \in Footprints :
    InitWith(arena_create(EmptyHeap(nd), NULL), [NoCall EXCEPT !.arg = total_small])

ClassLookup ==
  /\ call.op = "none"
  /\ call' = [call EXCEPT !.op = "size_to_class",
                          !.ret = SizeClass(call.arg),
                          !.cap = ChunkSize(SizeClass(call.arg))]
  /\ UNCHANGED <<ar, mem, sys, log, fault, blk, torn, ndebug, regs, rt, kids, wraps>>

NextClass == ClassLookup

SpecClass == InitClass /\ [][NextClass]_vars

Classes == 0..(ARENAIMP_NUM_SIZECLASSES - 1)

(* C17: the lookup maps a footprint of 1..448 bytes to the class whose      *)
(* bucket is the smallest bucket of the table that holds it; no smaller     *)
(* footprint gets a higher class or a larger bucket; and bucket sizes       *)
(* strictly increase with the class index.                                  *)
C17_SmallestBucket ==
  call.op = "size_to_class" =>
    /\ call.ret \in Classes
    /\ call.cap >= call.arg
    /\ \A c \in Classes : ChunkSize(c) >= call.arg => ChunkSize(c) >= call.cap
    /\ \A a \in 1..call.arg :
         SizeClass(a) <= call.ret /\ ChunkSize(SizeClass(a)) <= call.cap
    /\ \A c \in Classes \ {0} : ChunkSize(c - 1) < ChunkSize(c)

\* a footprint that is no multiple of 8 and no bucket size: 33 bytes go to
\* the 48-byte class
C17_Witness ==
  /\ call.op = "size_to_class"
  /\ call.arg = 33
  /\ call.ret = 3
  /\ call.cap = 48

----------------------------------------------------------------------------
(* Definitions for C18 *)

\* how often arena u has been torn down after the step
TornAfter(u) == IF u \in DOMAIN torn' THEN torn'[u] ELSE 0

(* C18: the teardown walk of Root is not disturbed by the finalizers it     *)
(* calls: when arena_free(Root) has returned, no assertion failed and       *)
(* nothing undefined happened, and every slot that was on Root's active     *)
(* list when teardown began was visited, so the child arena each of them    *)
(* is registered to destroy has been torn down once more.                   *)
C18_WalkUndisturbed ==
  [][(fault = "none" /\ Active(Root) /\ Root \in DOMAIN torn')
       => /\ fault' = "none"
          /\ ActiveChain(Root) # <<-1>>
          /\ \A j \in 1..Len(ActiveChain(Root)) :
               ar[Root].slots[ActiveChain(Root)[j] + 1].fn = FN_FREE_ARENA =>
                 TornAfter(ar[Root].slots[ActiveChain(Root)[j] + 1].user)
                   = TornCount(ar[Root].slots[ActiveChain(Root)[j] + 1].user) + 1]_vars

----------------------------------------------------------------------------
(* Caller actions with a second release: afree on a block the caller has    *)
(* already released and has not been given again since.                     *)

\* two small sizes of one class and a big one
TwiceSizes == {20, 30, 5000}

ReleasedBlocks(a) ==
  {p \in DOMAIN blk : ~blk[p].live /\ blk[p].own = "user" /\ blk[p].arena = a}

AfreeTwiceOf(a, ptr) ==
  /\ Called(afree(Heap, a, ptr), "afree", ptr)
  /\ UNCHANGED <<regs, rt, kids, wraps>>

AfreeTwice(a) ==
  /\ fault = "none"
  /\ Active(a)
  /\ call.n < MaxMisuse
  /\ \E ptr \in ReleasedBlocks(a) : AfreeTwiceOf(a, ptr)

NextTwice ==
  \/ \E size \in TwiceSizes : Alloc(Root, size)
  \/ AfreeAny(Root)
  \/ AfreeTwice(Root)

SpecTwice == Init /\ [][NextTwice]_vars

(* C19: in a debug build the second afree of a block on the same arena,     *)
(* small or big, stops at a failed assertion and leaves the arena and its   *)
(* lists as they were.                                                      *)
C19_SecondReleaseCaught ==
  [][(~ndebug /\ call'.n # call.n /\ call'.op = "afree")
       => (fault' \in AssertAborts /\ ar' = ar /\ mem' = mem /\ sys' = sys)]_vars

----------------------------------------------------------------------------
(* Caller actions with a bad slot index: one at or beyond num_defers, or    *)
(* one that is on the free list because its registration was cancelled.     *)

BadSlots(a) ==
  {slot \in 0..(MaxRegs + 1) :
     slot >= ar[a].num_defers \/ slot \in SeqRange(FreeChain(a))}

CanMisuse(a) ==
  /\ fault = "none"
  /\ Active(a)
  /\ call.n < MaxMisuse

BadCancel(a, slot, run_defer) ==
  /\ CanMisuse(a)
  /\ slot \in BadSlots(a)
  /\ Called(arena_ext_cancel(Heap, a, slot, run_defer), "arena_ext_cancel", slot)
  /\ UNCHANGED <<regs, rt, kids, wraps>>

BadRedefer(a, slot) ==
  /\ CanMisuse(a)
  /\ slot \in BadSlots(a)
  /\ Called(arena_ext_redefer(Heap, a, slot, "A", 0), "arena_ext_redefer", slot)
  /\ UNCHANGED <<regs, rt, kids, wraps>>

NextSlot ==
  \/ ExtDefer(Root)
  \/ \E i \in 1..MaxRegs, r \in BOOLEAN : ExtCancel(i, r)
  \/ \E slot \in 0..(MaxRegs + 1), r \in BOOLEAN : BadCancel(Root, slot, r)
  \/ \E slot \in 0..(MaxRegs + 1) : BadRedefer(Root, slot)

SpecSlot == Init /\ [][NextSlot]_vars

(* C20: in a debug build arena_ext_cancel and arena_ext_redefer with a      *)
(* slot index at or beyond num_defers, or with one that is on the free      *)
(* list, stop at a failed assertion and leave the arena, its active and     *)
(* free lists included, as it was.                                          *)
C20_BadSlotCaught ==
  [][(~ndebug /\ call'.n # call.n
      /\ call'.op \in {"arena_ext_cancel", "arena_ext_redefer"})
       => (fault' \in AssertAborts /\ ar' = ar)]_vars

----------------------------------------------------------------------------
(* Caller actions on the registry with re-registration: the caller gives a  *)
(* registration it holds a new finalizer and new user data, and notes them  *)
(* in its record at the place of the old ones.                              *)

ExtRedeferDone(S, i) ==
  /\ Called(S, "arena_ext_redefer", regs.live[i].slot)
  /\ regs' = [regs EXCEPT !.live[i].fn = FnOf(regs.n + 1),
                          !.live[i].user = regs.n + 1,
                          !.n = @ + 1]

ExtRedefer(i) ==
  /\ fault = "none"
  /\ i \in 1..Len(regs.live)
  /\ Active(regs.live[i].arena)
  /\ regs.n < MaxRegs
  /\ ExtRedeferDone(arena_ext_redefer(Heap, regs.live[i].arena, regs.live[i].slot,
                                      FnOf(regs.n + 1), regs.n + 1),
                    i)
  /\ UNCHANGED <<rt, kids, wraps>>

NextRedefer ==
  \/ ExtDefer(Root)
  \/ \E i \in 1..MaxRegs, r \in BOOLEAN : ExtCancel(i, r)
  \/ \E i \in 1..MaxRegs : ExtRedefer(i)
  \/ ArenaFree(Root)

SpecRedefer == Init /\ [][NextRedefer]_vars

(* C21: arena_ext_redefer on an active slot replaces that slot's finalizer  *)
(* and user data and changes nothing else: links, list heads, num_defers,   *)
(* the other slots and the rest of the heap stay as they were.  At          *)
(* teardown the finalizers run are those the registrations hold then, the   *)
(* new one in the place of the old, last registered first.                  *)
C21_RedeferInPlace ==
  /\ [](Root \in DOMAIN torn => (fault = "none" /\ TeardownCalls = Reverse(HeldRegs)))
  /\ [][(call'.n # call.n /\ call'.op = "arena_ext_redefer")
          => /\ fault' = "none"
             /\ ar' = [ar EXCEPT ![Root].slots[call'.arg + 1].fn = FnOf(regs'.n),
                                 ![Root].slots[call'.arg + 1].user = regs'.n]
             /\ mem' = mem /\ sys' = sys /\ log' = log]_vars

\* A, B, C were registered, B was re-registered as D, and teardown ran
\* C, D, A
C21_Witness ==
  /\ Root \in DOMAIN torn
  /\ call.op = "arena_ext_redefer"
  /\ TeardownCalls = <<<<"C", 3>>, <<"D", 4>>, <<"A", 1>>>>

----------------------------------------------------------------------------
(* Caller actions that fill page after page: requests of the largest small  *)
(* size, with a few of a middle size in between.                            *)

\* how many requests a behaviour makes: enough for five new pages
MaxPageAllocs == 17

\* the largest payload of the small path
PageFill == ARENAIMP_LARGEST_SIZECLASS - SizeofSmallHeader

\* the requests: the largest small payload, and one that leaves 16 bytes of
\* the first page
PageSizes == {PageFill, 264}

PageAlloc(size) ==
  /\ fault = "none"
  /\ Active(Root)
  /\ call.n < MaxPageAllocs
  /\ Len(sys) <= MaxChunks
  /\ size # PageFill =>
       Cardinality({p \in DOMAIN blk : blk[p].req = size}) < MaxTouch
  /\ Called(aalloc_uninit_size(Heap, Root, size, 1), "aalloc_uninit_size", size)
  /\ UNCHANGED <<regs, rt, kids, wraps>>

NextPage == \E size \in PageSizes : PageAlloc(size)

SpecPage == Init /\ [][NextPage]_vars

----------------------------------------------------------------------------
(* Definitions for C22 *)

Smaller(a, b) == IF a <= b THEN a ELSE b

\* the footprint of the request made in the step
Footprint == SizeofSmallHeader + call'.arg

\* space left in the current page before the step
Leftover == ar[Root].size - ar[Root].pos

\* the request made in the step finds no free block of its class and no
\* room for its chunk in the current page
Outgrows ==
  /\ call'.n # call.n
  /\ ar[Root].next_free[SizeClass(Footprint)] = NULL
  /\ Leftover < ChunkSize(SizeClass(Footprint))

\* the hint and the page size the step must arrive at
HintAfter == Smaller(2 * ar[Root].next_size, ARENAIMP_MAX_PAGE_SIZE)

PageAfter == Larger(HintAfter, Footprint)

\* the payload address of the system block the step obtains
NewPage == (Len(sys) + 1) * Stride + SizeofBigHeader

(* C22: a small request that does not fit in the current page doubles the   *)
(* growth hint up to the cap of 4096, obtains a page of max(hint,           *)
(* footprint) bytes and is served from its start; the new page becomes the  *)
(* current page exactly when it has more room left than the old one, else   *)
(* page, cursor and capacity stay.  The hint never decreases.               *)
C22_PageGrowth ==
  [][/\ ar'[Root].next_size >= ar[Root].next_size
     /\ Outgrows =>
          /\ fault' = "none"
          /\ ar'[Root].next_size = HintAfter
          /\ Len(sys') = Len(sys) + 1
          /\ sys'[Len(sys')].bytes = SizeofBigHeader + PageAfter
          /\ call'.ret = NewPage + SizeofSmallHeader
          /\ mem'[NewPage] = call'.arg
          /\ IF PageAfter - Footprint > Leftover
             THEN ar'[Root].page = NewPage /\ ar'[Root].size = PageAfter
             ELSE /\ ar'[Root].page = ar[Root].page
                  /\ ar'[Root].pos = ar[Root].pos
                  /\ ar'[Root].size = ar[Root].size]_vars

\* the fifth new page: the hint was 4096 already and stayed there
C22_Witness ==
  /\ fault = "none"
  /\ Len(sys) = 6
  /\ \A k \in 2..6 : sys[k].bytes = SizeofBigHeader + Smaller(256 * 2^(k - 1), 4096)
  /\ ar[Root].next_size = ARENAIMP_MAX_PAGE_SIZE
  /\ call.ret = 6 * Stride + SizeofBigHeader + SizeofSmallHeader

----------------------------------------------------------------------------
(* arena_free one phase at a time: the position inside the call is kept in  *)
(* call.op, the arena being torn down in call.arg.                          *)

\* assert(a->magic == ...); a->magic = ARENAIMP_MAGIC_FREE; and the walk
\* over the active list
free_phase_walk(S, arena) ==
  IF ~Ok(Chk(S, S.ar[arena].magic = ARENAIMP_MAGIC_ARENA, "abort:arena_free_magic"))
  THEN Chk(S, S.ar[arena].magic = ARENAIMP_MAGIC_ARENA, "abort:arena_free_magic")
  ELSE Walk([S EXCEPT !.ar[arena].magic = ARENAIMP_MAGIC_FREE,
                      !.torn = (arena :> (IF arena \in DOMAIN @
                                          THEN @[arena] + 1 ELSE 1)) @@ @],
            arena, S.ar[arena].active_defer_head, S.ar[arena].num_defers + 1)

\* alloc = a->big_head.next; last = &a->big_tail; and the sweep
free_phase_sweep(W, arena) ==
  IF ~Ok(W) THEN W
  ELSE IF arena \notin DOMAIN W.ar \/ ~Valid(W, arena + OffBigHead + OffNext)
  THEN Fault(W, "ub:use_after_free")
  ELSE Sweep(W, W.mem[arena + OffBigHead + OffNext], arena + OffBigTail,
             Len(W.sys) + 1)

\* no teardown has begun: the caller sets up its arenas, then tears one down
Idle == call.op = "none"

\* the arenas of the caller: the root and its children
Arenas == {Root} \cup {kids[i].arena : i \in 1..Len(kids)}

\* the arena made last: the one the caller still fills
Filling == IF kids = <<>> THEN {Root} ELSE {kids[Len(kids)].arena}

PhaseDefer(a) ==
  /\ Idle
  /\ regs.n < MaxTouch
  /\ ExtDefer(a)

\* requests that go on the big-object list
PhaseSizes == {5000}

PhaseAlloc(a, size) ==
  /\ Idle
  /\ rt.n < MaxTouch
  /\ Alloc(a, size)

PhaseCreate == Idle /\ CreateChild

PhaseInit == Idle /\ InitChild

\* arena_free(a) up to the end of its walk; the root is torn down by the
\* caller when it has no children, a child while the root is active
PhaseWalk(a) ==
  /\ fault = "none"
  /\ Idle
  /\ Active(a)
  /\ Active(Root)
  /\ a = Root => kids = <<>>
  /\ Called(free_phase_walk(Heap, a), "arena_free:walk", a)
  /\ UNCHANGED <<regs, rt, kids, wraps>>

PhaseSweep ==
  /\ fault = "none"
  /\ call.op = "arena_free:walk"
  /\ Called(free_phase_sweep(Heap, call.arg), "arena_free:sweep", call.arg)
  /\ UNCHANGED <<regs, rt, kids, wraps>>

PhaseBacking ==
  /\ fault = "none"
  /\ call.op = "arena_free:sweep"
  /\ Called(free_backing(Heap, call.arg), "arena_free:backing", call.arg)
  /\ UNCHANGED <<regs, rt, kids, wraps>>

NextPhase ==
  \/ \E a \in Filling : PhaseDefer(a)
  \/ \E a \in Filling, size \in PhaseSizes : PhaseAlloc(a, size)
  \/ PhaseCreate
  \/ PhaseInit
  \/ \E a \in Arenas : PhaseWalk(a)
  \/ PhaseSweep
  \/ PhaseBacking

SpecPhase == Init /\ [][NextPhase]_vars

----------------------------------------------------------------------------
(* Definitions for C23 *)

\* the step ends the named phase of a teardown
Ends(phase) == call'.n # call.n /\ call'.op = phase

\* the finalizers registered on the arena, in registration order
RegsOn(a) ==
  LET q == SelectSeq(regs.live, LAMBDA r : r.arena = a)
  IN [i \in 1..Len(q) |-> <<q[i].fn, q[i].user>>]

\* the system blocks on the arena's big-object list
OnRing(a) == RingOf(a) \ {a + OffBigHead, a + OffBigTail}

\* how often each system block has been freed
Frees == [k \in 1..Len(sys) |-> sys[k].frees]

\* the slot is on the free list of the arena's slot table, not on the
\* active list
Cancelled(a, slot) ==
  /\ ar[a].free_defer_head = slot
  /\ slot \notin SeqRange(ActiveChain(a))

----------------------------------------------------------------------------
(* Caller actions for a whole life of one arena: allocations and releases,  *)
(* then the teardown.                                                       *)

\* one small request that fills pages, one big request
LeakSizes == {PageFill, 5000}

NextLeak ==
  \/ \E size \in LeakSizes : Alloc(Root, size)
  \/ AfreeAny(Root)
  \/ ArenaFree(Root)

SpecLeak == Init /\ [][NextLeak]_vars

(* C24: once the arena has been torn down without a failure, every block    *)
(* the system allocator handed out for it (big blocks, pages, the arena's   *)
(* own memory) has been freed exactly once, whatever was allocated and      *)
(* released before.                                                         *)
C24_AllReturnedOnce ==
  (Root \in DOMAIN torn /\ fault = "none") =>
     \A k \in 1..Len(sys) : sys[k].frees = 1

----------------------------------------------------------------------------
(* Definitions for C25 *)

\* the bytes of its system block that lie at or after the address
Obtained(addr) ==
  IF addr \div Stride \in 1..Len(sys)
  THEN sys[addr \div Stride].bytes - (addr % Stride)
  ELSE 0

\* the bytes a bump block takes from its page: header and payload, rounded
\* up to the size class
Carved(p) == ChunkSize(SizeClass(SizeofSmallHeader + blk[p].req))

BumpBlocks == {p \in DOMAIN blk : blk[p].live /\ blk[p].path = "bump"}

(* C25: the cursor of every arena is at most the page capacity, and every   *)
(* block carved by bump allocation ends inside the system block (or caller  *)
(* storage) that holds its page.                                            *)
C25_BumpInsidePage ==
  /\ \A a \in DOMAIN ar : ar[a].pos <= ar[a].size
  /\ \A p \in BumpBlocks : Carved(p) <= Obtained(p - SizeofSmallHeader)

====
